---- MODULE Spec2Model ----
(***************************************************************************)
(* A model of velvetio's prompt engine (src/src/core.rs), of the codecs it *)
(* dispatches to (src/src/parser.rs), of its errors (src/src/error.rs) and *)
(* of its validators (src/src/validators.rs).                              *)
(*                                                                         *)
(* A text is a sequence of characters, a character a one-character string. *)
(* The console is the only collaborator: every read_line is an event the   *)
(* environment supplies (a line with its terminator, end-of-stream, or an  *)
(* I/O failure), and everything written is appended to `out`.              *)
(***************************************************************************)
EXTENDS Integers, Sequences, FiniteSets

(***************************************************************************)
(* Bounds of the model.                                                    *)
(***************************************************************************)
\* Reads one call may perform before the model stops following it.
MaxReads == 3
\* Longest option list handed to choose / multi_select.
MaxOptions == 3
\* Most whitespace characters put before, and after, a text handed to a codec.
MaxPad == 1
\* Longest of the texts over ListAlphabet handed to the list codec.
MaxTextLen == 3
\* Most fields declared on a form.
MaxFields == 2
\* Most parts, between separators, of the texts handed to the tuple codecs.
MaxCombines == 2
MaxCalls == 2
MaxParts == 4

(***************************************************************************)
(* Text primitives of the standard library, as the code uses them.         *)
(***************************************************************************)
\* char::is_whitespace, over the characters of the model.
WhiteSpace == {" ", "\t", "\n", "\r"}

UpperCase ==
    <<"A", "E", "F", "I", "K", "L", "N", "O", "P", "R", "S", "T", "U", "Y">>
LowerCase ==
    <<"a", "e", "f", "i", "k", "l", "n", "o", "p", "r", "s", "t", "u", "y">>

\* char::to_lowercase, over the characters of the model.
LowerChar(c) ==
    IF \E i \in 1..Len(UpperCase) : UpperCase[i] = c
    THEN LowerCase[CHOOSE i \in 1..Len(UpperCase) : UpperCase[i] = c]
    ELSE c

\* str::to_lowercase
ToLower(s) == [i \in 1..Len(s) |-> LowerChar(s[i])]

RECURSIVE TrimStart(_)
\* str::trim_start
TrimStart(s) ==
    IF s # <<>> /\ Head(s) \in WhiteSpace THEN TrimStart(Tail(s)) ELSE s

RECURSIVE TrimEnd(_)
\* str::trim_end
TrimEnd(s) ==
    IF s # <<>> /\ s[Len(s)] \in WhiteSpace
    THEN TrimEnd(SubSeq(s, 1, Len(s) - 1))
    ELSE s

\* str::trim
Trim(s) == TrimEnd(TrimStart(s))

RECURSIVE SplitOn(_, _)
\* str::split(sep): the pieces between the separators, empty pieces kept,
\* so a text with k separators yields k + 1 pieces.
SplitOn(s, sep) ==
    IF \E i \in 1..Len(s) : s[i] = sep
    THEN LET i == CHOOSE j \in 1..Len(s) :
                      s[j] = sep /\ \A k \in 1..(j - 1) : s[k] # sep
         IN  <<SubSeq(s, 1, i - 1)>> \o SplitOn(SubSeq(s, i + 1, Len(s)), sep)
    ELSE <<s>>

RECURSIVE SplitWhitespace(_)
\* str::split_whitespace: the maximal runs of characters that are not
\* whitespace, in order; never an empty piece.
SplitWhitespace(s) ==
    LET t == TrimStart(s)
    IN  IF t = <<>> THEN <<>>
        ELSE IF \E i \in 1..Len(t) : t[i] \in WhiteSpace
        THEN LET i == CHOOSE j \in 1..Len(t) :
                          /\ t[j] \in WhiteSpace
                          /\ \A k \in 1..(j - 1) : t[k] \notin WhiteSpace
             IN  <<SubSeq(t, 1, i - 1)>>
                   \o SplitWhitespace(SubSeq(t, i + 1, Len(t)))
        ELSE <<t>>

\* str::contains(char)
Contains(s, c) == \E i \in 1..Len(s) : s[i] = c

Digits == <<"0", "1", "2", "3", "4", "5", "6", "7", "8", "9">>

IsDigit(c) == \E i \in 1..10 : Digits[i] = c

DigitVal(c) == (CHOOSE i \in 1..10 : Digits[i] = c) - 1

RECURSIVE StripZeros(_)
StripZeros(ds) ==
    IF Len(ds) > 1 /\ Head(ds) = "0" THEN StripZeros(Tail(ds)) ELSE ds

RECURSIVE DigitsLess(_, _)
\* Lexicographic order of two digit texts of the same length.
DigitsLess(a, b) ==
    IF a = <<>> THEN FALSE
    ELSE IF DigitVal(Head(a)) # DigitVal(Head(b))
         THEN DigitVal(Head(a)) < DigitVal(Head(b))
         ELSE DigitsLess(Tail(a), Tail(b))

RECURSIVE Horner(_, _)
Horner(ds, acc) ==
    IF ds = <<>> THEN acc ELSE Horner(Tail(ds), 10 * acc + DigitVal(Head(ds)))

\* usize::MAX on a 64-bit target, 18446744073709551615, as its digits.
UsizeMaxDigits ==
    <<"1", "8", "4", "4", "6", "7", "4", "4", "0", "7",
      "3", "7", "0", "9", "5", "5", "1", "6", "1", "5">>

\* Whether a text of digits denotes a number above usize::MAX.
Overflows(ds) ==
    LET n == StripZeros(ds)
    IN  \/ Len(n) > Len(UsizeMaxDigits)
        \/ Len(n) = Len(UsizeMaxDigits) /\ DigitsLess(UsizeMaxDigits, n)

\* str::parse::<usize>: an optional "+", then one or more digits and nothing
\* else (no sign "-", no blanks); a number above usize::MAX is an error. The
\* value is computed for the texts the model reads, of at most 9 digits.
StdParseUsize(s) ==
    LET ds == IF s # <<>> /\ Head(s) = "+" THEN Tail(s) ELSE s
    IN  IF ds = <<>> \/ (\E i \in 1..Len(ds) : ~IsDigit(ds[i])) \/ Overflows(ds)
        THEN [ok |-> FALSE]
        ELSE [ok |-> TRUE, v |-> Horner(StripZeros(ds), 0)]

(***************************************************************************)
(* Errors (src/src/error.rs). A message is kept as the pieces its format   *)
(* string joins.                                                           *)
(***************************************************************************)
\* VelvetIOError::parse_error
parse_error(input, expected_type) ==
    [message  |-> <<"Cannot parse '", input, "' as ", expected_type>>,
     input    |-> input,
     expected |-> expected_type]

\* From<std::io::Error> for VelvetIOError
from_io_error ==
    [message  |-> <<"Input error: ", "io">>,
     input    |-> <<>>,
     expected |-> "valid input"]

\* Display for VelvetIOError
Display(e) == e.message

Ok(v) == [ok |-> TRUE, v |-> v]
Err(e) == [ok |-> FALSE, e |-> e]

(***************************************************************************)
(* Codecs (src/src/parser.rs).                                             *)
(***************************************************************************)
BoolExpected == "boolean (yes/no, true/false, y/n, 1/0)"
UsizeExpected == "positive integer"

\* impl Parse for String
ParseString(input) == Ok(input)

BoolTrue ==
    {<<"t", "r", "u", "e">>, <<"t">>, <<"y", "e", "s">>, <<"y">>, <<"1">>,
     <<"o", "n">>}
BoolFalse ==
    {<<"f", "a", "l", "s", "e">>, <<"f">>, <<"n", "o">>, <<"n">>, <<"0">>,
     <<"o", "f", "f">>}

\* bool::parse matching the text as typed, to_lowercase left out.
ParseBoolCaseSensitive(input) ==
    LET t == Trim(input)
    IN  IF t \in BoolTrue THEN Ok(TRUE)
        ELSE IF t \in BoolFalse THEN Ok(FALSE)
        ELSE Err(parse_error(input, BoolExpected))

\* impl Parse for bool
ParseBool(input) ==
    LET t == ToLower(Trim(input))
    IN  IF t \in BoolTrue THEN Ok(TRUE)
        ELSE IF t \in BoolFalse THEN Ok(FALSE)
        ELSE Err(parse_error(input, BoolExpected))

\* impl_numeric!(usize, "positive integer")
ParseUsize(input) ==
    LET r == StdParseUsize(Trim(input))
    IN  IF r.ok THEN Ok(r.v) ELSE Err(parse_error(input, UsizeExpected))

OptionNone ==
    {<<"n", "o", "n", "e">>, <<"n", "u", "l", "l">>, <<"n", "i", "l">>,
     <<"-">>, <<"s", "k", "i", "p">>}

None == [some |-> FALSE]
Some(v) == [some |-> TRUE, v |-> v]

\* The target types T the prompt engine is instantiated at in this model.
Types == {"String", "bool", "usize", "Option<usize>"}

OptionTypes == {"Option<usize>", "Option<String>", "Option<bool>"}
VecTypes == {"Vec<usize>", "Vec<String>", "Vec<bool>"}
IntTypes == {"u8", "i8", "u16", "i16"}
PairTypes ==
    {"(String, String)", "(usize, usize)", "(usize, String)", "(f64, f64)"}
TripleTypes == {"(String, String, String)", "(usize, usize, usize)"}

\* The T1, T2 (and T3) of a tuple type.
TupleArgs(T) ==
    CASE T = "(String, String)" -> <<"String", "String">>
      [] T = "(usize, usize)" -> <<"usize", "usize">>
      [] T = "(usize, String)" -> <<"usize", "String">>
      [] T = "(f64, f64)" -> <<"f64", "f64">>
      [] T = "(String, String, String)" -> <<"String", "String", "String">>
      [] T = "(usize, usize, usize)" -> <<"usize", "usize", "usize">>

\* The T of an Option<T> or a Vec<T>.
TypeArg(T) ==
    CASE T \in {"Option<usize>", "Vec<usize>"} -> "usize"
      [] T \in {"Option<String>", "Vec<String>"} -> "String"
      [] T \in {"Option<bool>", "Vec<bool>"} -> "bool"

\* T::type_name
type_name(T) ==
    CASE T = "String" -> "text"
      [] T = "bool" -> "boolean"
      [] T = "usize" -> "positive integer"
      [] T = "f64" -> "decimal number"
      [] T = "char" -> "character"
      [] T = "u8" -> "positive integer (0 to 255)"
      [] T = "i8" -> "integer (-128 to 127)"
      [] T = "u16" -> "positive integer (0 to 65,535)"
      [] T = "i16" -> "integer (-32,768 to 32,767)"
      [] T \in OptionTypes -> "optional value (or empty/none for no value)"
      [] T \in VecTypes -> "list of values"
      [] T \in PairTypes -> "pair of values"
      [] T \in TripleTypes -> "triple of values"

RECURSIVE Parse(_, _)

\* Option<T>::parse with the test of the none words made on the text as
\* typed, to_lowercase left out.
ParseOptionCaseSensitive(T, input) ==
    LET trimmed == Trim(input)
    IN  IF trimmed = <<>> THEN Ok(None)
        ELSE IF trimmed \in OptionNone THEN Ok(None)
        ELSE LET r == Parse(T, trimmed)
             IN  IF r.ok THEN Ok(Some(r.v)) ELSE Err(r.e)

\* impl Parse for Option<T>
ParseOption(T, input) ==
    LET trimmed == Trim(input)
    IN  IF trimmed = <<>> THEN Ok(None)
        ELSE IF ToLower(trimmed) \in OptionNone THEN Ok(None)
        ELSE LET r == Parse(T, trimmed)
             IN  IF r.ok THEN Ok(Some(r.v)) ELSE Err(r.e)

NonEmpty(s) == s # <<>>

\* Vec<T>::parse: the separator chosen for the trimmed text.
Separator(trimmed) ==
    IF Contains(trimmed, ",") THEN ","
    ELSE IF Contains(trimmed, ";") THEN ";"
    ELSE IF Contains(trimmed, "|") THEN "|"
    ELSE " "

\* Vec<T>::parse choosing the semicolon before the comma.
VecPartsSemicolonFirst(trimmed) ==
    LET separator == IF Contains(trimmed, ";") THEN ";"
                     ELSE IF Contains(trimmed, ",") THEN ","
                     ELSE IF Contains(trimmed, "|") THEN "|"
                     ELSE " "
    IN  IF separator = " " THEN SplitWhitespace(trimmed)
        ELSE LET pieces == SplitOn(trimmed, separator)
             IN  SelectSeq([i \in 1..Len(pieces) |-> Trim(pieces[i])],
                           NonEmpty)

\* Vec<T>::parse: the parts of the trimmed text.
VecParts(trimmed) ==
    LET separator == Separator(trimmed)
    IN  IF separator = " " THEN SplitWhitespace(trimmed)
        ELSE LET pieces == SplitOn(trimmed, separator)
             IN  SelectSeq([i \in 1..Len(pieces) |-> Trim(pieces[i])],
                           NonEmpty)

RECURSIVE VecLoopSkippingBadPart(_, _, _, _)
\* Vec<T>::parse's for loop leaving out the parts T rejects.
VecLoopSkippingBadPart(T, input, parts, results) ==
    IF parts = <<>> THEN Ok(results)
    ELSE LET r == Parse(T, Head(parts))
         IN  VecLoopSkippingBadPart(T, input, Tail(parts),
                                    IF r.ok THEN Append(results, r.v)
                                    ELSE results)

RECURSIVE VecLoop(_, _, _, _)
\* Vec<T>::parse's for loop over the parts.
VecLoop(T, input, parts, results) ==
    IF parts = <<>> THEN Ok(results)
    ELSE LET r == Parse(T, Head(parts))
         IN  IF r.ok
             THEN VecLoop(T, input, Tail(parts), Append(results, r.v))
             ELSE Err(parse_error(input, <<"list of ", type_name(T)>>))

\* impl Parse for Vec<T>
ParseVec(T, input) ==
    LET trimmed == Trim(input)
    IN  IF trimmed = <<>> THEN Ok(<<>>)
        ELSE VecLoop(T, input, VecParts(trimmed), <<>>)

RECURSIVE StripTrailingZeros(_)
StripTrailingZeros(ds) ==
    IF ds # <<>> /\ ds[Len(ds)] = "0"
    THEN StripTrailingZeros(SubSeq(ds, 1, Len(ds) - 1)) ELSE ds

\* The f64 a decimal text denotes, kept as its sign and its digits before and
\* after the point without the zeros that do not count; the infinities and
\* NaN have no digits.
F64(k, neg, int, frac) ==
    [k |-> k, neg |-> neg, int |-> int, frac |-> frac]

\* str::parse::<f64>: an optional sign, then inf, infinity or nan in any
\* letter case, or digits with at most one point and at least one digit.
\* Texts with an exponent are not among the lines of the model and have no
\* arm here. The value is exact for the texts the model reads, of fewer than
\* 16 digits.
StdParseF64(s) ==
    LET neg == s # <<>> /\ Head(s) = "-"
        u == IF s # <<>> /\ Head(s) \in {"+", "-"} THEN Tail(s) ELSE s
        dots == {i \in 1..Len(u) : u[i] = "."}
        d == IF dots = {} THEN Len(u) + 1
             ELSE CHOOSE i \in dots : \A j \in dots : i <= j
        int == SubSeq(u, 1, d - 1)
        frac == SubSeq(u, d + 1, Len(u))
        digits == \A i \in 1..Len(u) : IsDigit(u[i]) \/ i = d
        exponent == /\ \E i \in 1..Len(u) : u[i] \in {"e", "E"}
                    /\ \A i \in 1..Len(u) :
                         IsDigit(u[i]) \/ u[i] \in {"e", "E", ".", "+", "-"}
    IN  CASE ToLower(u) \in {<<"i", "n", "f">>,
                             <<"i", "n", "f", "i", "n", "i", "t", "y">>} ->
               [ok |-> TRUE, v |-> F64("inf", neg, <<>>, <<>>)]
          [] ToLower(u) = <<"n", "a", "n">> ->
               [ok |-> TRUE, v |-> F64("nan", FALSE, <<>>, <<>>)]
          [] digits /\ Len(int) + Len(frac) >= 1 ->
               [ok |-> TRUE,
                v |-> F64("num", neg,
                          IF int = <<>> THEN <<"0">> ELSE StripZeros(int),
                          StripTrailingZeros(frac))]
          [] ~exponent -> [ok |-> FALSE]

\* impl_numeric!(f64, "decimal number")
ParseF64(input) ==
    LET r == StdParseF64(Trim(input))
    IN  IF r.ok THEN Ok(r.v) ELSE Err(parse_error(input, "decimal number"))

\* f64::to_string: Display writes the shortest decimal that reads back as
\* the same f64, without an exponent: "1.50" comes back as "1.5", "2.0" and
\* "02" as "2".
F64ToString(v) ==
    CASE v.k = "nan" -> <<"N", "a", "N">>
      [] v.k = "inf" ->
           (IF v.neg THEN <<"-">> ELSE <<>>) \o <<"i", "n", "f">>
      [] v.k = "num" ->
           (IF v.neg THEN <<"-">> ELSE <<>>) \o v.int
             \o (IF v.frac = <<>> THEN <<>> ELSE <<".">> \o v.frac)

\* bool::to_string
BoolToString(b) ==
    IF b THEN <<"t", "r", "u", "e">> ELSE <<"f", "a", "l", "s", "e">>

\* impl Parse for char
ParseChar(input) ==
    LET trimmed == Trim(input)
    IN  IF Len(trimmed) = 1 THEN Ok(trimmed[1])
        ELSE Err(parse_error(input, "single character"))

\* Whether the integer type has a sign.
Signed(T) == T \in {"i8", "i16"}

\* T::MIN and T::MAX
IntMin(T) ==
    CASE T = "u8" -> 0
      [] T = "i8" -> -128
      [] T = "u16" -> 0
      [] T = "i16" -> -32768
IntMax(T) ==
    CASE T = "u8" -> 255
      [] T = "i8" -> 127
      [] T = "u16" -> 65535
      [] T = "i16" -> 32767

\* The sign and the digits of a text for an integer of type T: a "+" may come
\* first, and for a type with a sign a "-".
IntSign(T, s) ==
    IF s # <<>> /\ (Head(s) = "+" \/ (Head(s) = "-" /\ Signed(T)))
    THEN Head(s) ELSE ""
IntDigits(T, s) == IF IntSign(T, s) = "" THEN s ELSE Tail(s)

\* The number the sign and digits denote, for digits short enough to be
\* computed; longer ones are beyond every type of the model.
IntValue(T, s) ==
    LET n == Horner(StripZeros(IntDigits(T, s)), 0)
    IN  IF IntSign(T, s) = "-" THEN 0 - n ELSE n

\* Well-formed text for an integer: a sign the type allows, then one or more
\* digits and nothing else.
IntShaped(T, s) ==
    /\ IntDigits(T, s) # <<>>
    /\ \A i \in 1..Len(IntDigits(T, s)) : IsDigit(IntDigits(T, s)[i])

\* str::parse of a fixed-width integer that keeps the low bits of a number
\* beyond the type's range instead of refusing it.
StdParseIntWrapping(T, s) ==
    IF ~IntShaped(T, s) \/ Len(StripZeros(IntDigits(T, s))) > 9
    THEN [ok |-> FALSE]
    ELSE LET width == IntMax(T) - IntMin(T) + 1
         IN  [ok |-> TRUE,
              v |-> ((IntValue(T, s) - IntMin(T)) % width) + IntMin(T)]

\* str::parse::<T> for the fixed-width integer types: a number beyond the
\* range of T is an error.
StdParseInt(T, s) ==
    IF ~IntShaped(T, s) \/ Len(StripZeros(IntDigits(T, s))) > 9
    THEN [ok |-> FALSE]
    ELSE IF IntValue(T, s) < IntMin(T) \/ IntValue(T, s) > IntMax(T)
    THEN [ok |-> FALSE]
    ELSE [ok |-> TRUE, v |-> IntValue(T, s)]

\* impl_numeric!(u8, ...), impl_numeric!(i8, ...), impl_numeric!(u16, ...),
\* impl_numeric!(i16, ...)
ParseInt(T, input) ==
    LET r == StdParseInt(T, Trim(input))
    IN  IF r.ok THEN Ok(r.v) ELSE Err(parse_error(input, type_name(T)))

RECURSIVE NatToString(_)
NatToString(n) ==
    IF n < 10 THEN <<Digits[n + 1]>>
    ELSE NatToString(n \div 10) \o <<Digits[(n % 10) + 1]>>

\* to_string of an integer
IntToString(n) ==
    IF n < 0 THEN <<"-">> \o NatToString(0 - n) ELSE NatToString(n)

\* to_string of a value of a scalar type: its canonical text.
ToString(T, v) ==
    CASE T = "String" -> v
      [] T = "bool" -> BoolToString(v)
      [] T = "char" -> <<v>>
      [] T \in IntTypes \cup {"usize"} -> IntToString(v)

\* The parts the tuple codecs cut the text into: on commas when the text
\* holds one, each part trimmed and the empty ones kept, and else on runs of
\* whitespace.
TupleParts(input) ==
    IF Contains(input, ",")
    THEN [i \in 1..Len(SplitOn(input, ",")) |-> Trim(SplitOn(input, ",")[i])]
    ELSE SplitWhitespace(input)

\* impl Parse for (T1, T2)
ParsePair(T1, T2, input) ==
    LET parts == TupleParts(input)
        elements == <<"pair: ", type_name(T1), " and ", type_name(T2)>>
    IN  IF Len(parts) # 2
        THEN Err(parse_error(input,
                             "pair of values (separate with comma or space)"))
        ELSE IF ~Parse(T1, parts[1]).ok THEN Err(parse_error(input, elements))
        ELSE IF ~Parse(T2, parts[2]).ok THEN Err(parse_error(input, elements))
        ELSE Ok(<<Parse(T1, parts[1]).v, Parse(T2, parts[2]).v>>)

\* impl Parse for (T1, T2, T3)
ParseTriple(T1, T2, T3, input) ==
    LET parts == TupleParts(input)
    IN  IF Len(parts) # 3
        THEN Err(parse_error(input,
                             "triple of values (separate with comma or space)"))
        ELSE IF ~Parse(T1, parts[1]).ok
        THEN Err(parse_error(input, "triple of values"))
        ELSE IF ~Parse(T2, parts[2]).ok
        THEN Err(parse_error(input, "triple of values"))
        ELSE IF ~Parse(T3, parts[3]).ok
        THEN Err(parse_error(input, "triple of values"))
        ELSE Ok(<<Parse(T1, parts[1]).v, Parse(T2, parts[2]).v,
                  Parse(T3, parts[3]).v>>)

\* T::parse, the static dispatch on the target type.
Parse(T, input) ==
    CASE T = "String" -> ParseString(input)
      [] T = "bool" -> ParseBool(input)
      [] T = "usize" -> ParseUsize(input)
      [] T = "f64" -> ParseF64(input)
      [] T \in OptionTypes -> ParseOption(TypeArg(T), input)
      [] T \in VecTypes -> ParseVec(TypeArg(T), input)

\* T::parse for every type of the model: the characters, the integers of a
\* fixed width and the tuples besides the types the prompt engine is called
\* with.
ParseAs(T, input) ==
    CASE T = "char" -> ParseChar(input)
      [] T \in IntTypes -> ParseInt(T, input)
      [] T \in PairTypes ->
           ParsePair(TupleArgs(T)[1], TupleArgs(T)[2], input)
      [] T \in TripleTypes ->
           ParseTriple(TupleArgs(T)[1], TupleArgs(T)[2], TupleArgs(T)[3],
                       input)
      [] OTHER -> Parse(T, input)

(***************************************************************************)
(* Validators (src/src/validators.rs). A validator is kept as a record     *)
(* naming the predicate and the configuration its closure captured.        *)
(***************************************************************************)
\* The characters of the model outside ASCII, named by their code point.
TwoByteChars == {"U+00E9", "U+00DF"}

\* Bytes of a character's UTF-8 encoding.
Utf8Len(c) == IF c \in TwoByteChars THEN 2 ELSE 1

RECURSIVE StrLen(_)
\* String::len: the length in bytes.
StrLen(s) == IF s = <<>> THEN 0 ELSE Utf8Len(Head(s)) + StrLen(Tail(s))

not_empty == [f |-> "not_empty"]
min_length(min) == [f |-> "min_length", n |-> min]
max_length(max) == [f |-> "max_length", n |-> max]
is_positive == [f |-> "is_positive"]
in_range(min, max) == [f |-> "in_range", min |-> min, max |-> max]
\* The closures and / or return: they capture the two validators.
and(validator1, validator2) ==
    [f |-> "and", validator1 |-> validator1, validator2 |-> validator2]
or(validator1, validator2) ==
    [f |-> "or", validator1 |-> validator1, validator2 |-> validator2]

RECURSIVE Validate(_, _)
\* The closure of `and` calling its first validator only.
ValidateAndFirstOnly(validator, value) ==
    CASE validator.f = "not_empty" -> Trim(value) # <<>>
      [] validator.f = "min_length" -> StrLen(value) >= validator.n
      [] validator.f = "max_length" -> StrLen(value) <= validator.n
      [] validator.f = "is_positive" -> value > 0
      [] validator.f = "in_range" ->
            value >= validator.min /\ value <= validator.max
      [] validator.f = "and" -> Validate(validator.validator1, value)
      [] validator.f = "or" ->
            IF Validate(validator.validator1, value) THEN TRUE
            ELSE Validate(validator.validator2, value)

\* A call of the validator closure on a value.
Validate(validator, value) ==
    CASE validator.f = "not_empty" -> Trim(value) # <<>>
      [] validator.f = "and" ->
            IF Validate(validator.validator1, value)
            THEN Validate(validator.validator2, value)
            ELSE FALSE
      [] validator.f = "or" ->
            IF Validate(validator.validator1, value) THEN TRUE
            ELSE Validate(validator.validator2, value)
      [] validator.f = "min_length" -> StrLen(value) >= validator.n
      [] validator.f = "max_length" -> StrLen(value) <= validator.n
      [] validator.f = "is_positive" -> value > 0
      [] validator.f = "in_range" ->
            value >= validator.min /\ value <= validator.max

(***************************************************************************)
(* The console. A read_line is one event: a line as read_line delivers it  *)
(* (terminator included), end-of-stream (Ok(0), the buffer left empty) or  *)
(* an I/O failure.                                                         *)
(***************************************************************************)
Line(text) == [k |-> "line", text |-> text]
EofEv == [k |-> "eof", text |-> <<>>]
ErrEv == [k |-> "err", text |-> <<>>]

\* What read_line left in the buffer.
ReadText(ev) == ev.text

\* print!("{}: ", prompt)
Prompt(prompt) == [k |-> "print", text |-> <<prompt, ": ">>]
\* print!("{} [{}]: ", prompt, default)
PromptDefault(prompt, default) ==
    [k |-> "print_default", text |-> <<prompt, " [", default, "]: ">>]
\* println!
Println(text) == [k |-> "println", text |-> text]
\* eprintln!("<cross mark> {}", ...): every diagnostic of core.rs starts with
\* the cross mark U+274C and a blank.
Eprintln(msg) == [k |-> "eprintln", text |-> <<"U+274C ">> \o msg]

DefaultError == <<"Invalid input, please try again">>
EmptyListPanic == "Cannot choose from empty list"

(***************************************************************************)
(* The prompt engine (src/src/core.rs): what one pass of each function's   *)
(* body does with the event its read_line meets. `done` says whether the   *)
(* pass returned, `v` what it returned, `out` what it wrote.               *)
(***************************************************************************)
\* ask with the trim of line 15 left out.
AskIterNoTrim(T, prompt, ev) ==
    IF ev.k = "err"
    THEN [done |-> FALSE,
          out |-> <<Prompt(prompt), Eprintln(<<"Input error: ", "io">>)>>]
    ELSE LET r == Parse(T, ReadText(ev))
         IN  IF r.ok
             THEN [done |-> TRUE, v |-> r.v, out |-> <<Prompt(prompt)>>]
             ELSE [done |-> FALSE,
                   out |-> <<Prompt(prompt), Eprintln(Display(r.e))>>]

\* ask giving up on a failed read: it returns the codec's value for the
\* empty buffer, or goes round again without a word.
AskIterReadFailureAsEmpty(T, prompt, ev) ==
    LET r == Parse(T, Trim(ReadText(ev)))
    IN  IF r.ok
        THEN [done |-> TRUE, v |-> r.v, out |-> <<Prompt(prompt)>>]
        ELSE [done |-> FALSE,
              out |-> <<Prompt(prompt), Eprintln(Display(r.e))>>]

\* ask taking a blank line for a rejected one.
AskIterRetryingOnBlank(T, prompt, ev) ==
    IF ev.k = "err"
    THEN [done |-> FALSE,
          out |-> <<Prompt(prompt), Eprintln(<<"Input error: ", "io">>)>>]
    ELSE LET r == Parse(T, Trim(ReadText(ev)))
         IN  IF r.ok /\ Trim(ReadText(ev)) # <<>>
             THEN [done |-> TRUE, v |-> r.v, out |-> <<Prompt(prompt)>>]
             ELSE [done |-> FALSE,
                   out |-> <<Prompt(prompt), Eprintln(DefaultError)>>]

\* One pass of ask's loop.
AskIter(T, prompt, ev) ==
    IF ev.k = "err"
    THEN [done |-> FALSE,
          out |-> <<Prompt(prompt), Eprintln(<<"Input error: ", "io">>)>>]
    ELSE LET r == Parse(T, Trim(ReadText(ev)))
         IN  IF r.ok
             THEN [done |-> TRUE, v |-> r.v, out |-> <<Prompt(prompt)>>]
             ELSE [done |-> FALSE,
                   out |-> <<Prompt(prompt), Eprintln(Display(r.e))>>]

\* try_ask reporting its failure on the console as ask does.
TryAskOnceReporting(T, prompt, ev) ==
    LET r == IF ev.k = "err" THEN Err(from_io_error)
             ELSE Parse(T, Trim(ReadText(ev)))
    IN  [v |-> r,
         out |-> IF r.ok THEN <<Prompt(prompt)>>
                 ELSE <<Prompt(prompt), Eprintln(Display(r.e))>>]

\* The body of try_ask: the ? converts the I/O failure.
TryAskOnce(T, prompt, ev) ==
    [v |-> IF ev.k = "err" THEN Err(from_io_error)
           ELSE Parse(T, Trim(ReadText(ev))),
     out |-> <<Prompt(prompt)>>]

\* ask_with_validation returning whatever parses, the validator's verdict
\* computed and dropped.
AskValidIterVerdictDropped(T, prompt, validator, error_message, ev) ==
    IF ev.k = "err"
    THEN [done |-> FALSE, checked |-> <<>>,
          out |-> <<Prompt(prompt), Eprintln(<<"Input error: ", "io">>)>>]
    ELSE LET r == Parse(T, Trim(ReadText(ev)))
         IN  IF ~r.ok
             THEN [done |-> FALSE, checked |-> <<>>,
                   out |-> <<Prompt(prompt), Eprintln(Display(r.e))>>]
             ELSE [done |-> TRUE, v |-> r.v, checked |-> <<r.v>>,
                   out |-> <<Prompt(prompt)>>]

\* ask_with_validation printing the caller's message for every rejected
\* line, a line that fails to parse included.
AskValidIterOneMessage(T, prompt, validator, error_message, ev) ==
    LET error_msg == IF error_message.some THEN error_message.v
                     ELSE DefaultError
    IN  IF ev.k = "err"
        THEN [done |-> FALSE, checked |-> <<>>,
              out |-> <<Prompt(prompt), Eprintln(<<"Input error: ", "io">>)>>]
        ELSE LET r == Parse(T, Trim(ReadText(ev)))
             IN  IF r.ok /\ Validate(validator, r.v)
                 THEN [done |-> TRUE, v |-> r.v, checked |-> <<r.v>>,
                       out |-> <<Prompt(prompt)>>]
                 ELSE [done |-> FALSE,
                       checked |-> IF r.ok THEN <<r.v>> ELSE <<>>,
                       out |-> <<Prompt(prompt), Eprintln(error_msg)>>]

\* One pass of ask_with_validation's loop; `checked` lists the values the
\* validator was called on.
AskValidIter(T, prompt, validator, error_message, ev) ==
    LET error_msg == IF error_message.some THEN error_message.v
                     ELSE DefaultError
    IN  IF ev.k = "err"
        THEN [done |-> FALSE, checked |-> <<>>,
              out |-> <<Prompt(prompt), Eprintln(<<"Input error: ", "io">>)>>]
        ELSE LET r == Parse(T, Trim(ReadText(ev)))
             IN  IF ~r.ok
                 THEN [done |-> FALSE, checked |-> <<>>,
                       out |-> <<Prompt(prompt), Eprintln(Display(r.e))>>]
                 ELSE IF Validate(validator, r.v)
                 THEN [done |-> TRUE, v |-> r.v, checked |-> <<r.v>>,
                       out |-> <<Prompt(prompt)>>]
                 ELSE [done |-> FALSE, checked |-> <<r.v>>,
                       out |-> <<Prompt(prompt), Eprintln(error_msg)>>]

\* ask_with_default without the test for an empty line: the codec decides.
AskDefaultOnceNoEmptyTest(T, prompt, default, ev) ==
    [v |-> IF ev.k = "err" THEN default
           ELSE LET r == Parse(T, Trim(ReadText(ev)))
                IN  IF r.ok THEN r.v ELSE default,
     out |-> <<PromptDefault(prompt, default)>>]

\* The body of ask_with_default.
AskDefaultOnce(T, prompt, default, ev) ==
    [v |-> IF ev.k = "err" THEN default
           ELSE LET trimmed == Trim(ReadText(ev))
                IN  IF trimmed = <<>> THEN default
                    ELSE LET r == Parse(T, trimmed)
                         IN  IF r.ok THEN r.v ELSE default,
     out |-> <<PromptDefault(prompt, default)>>]

\* The numbered list choose and multi_select print.
ListLines(prompt, choices) ==
    <<Println(<<prompt, ":">>)>>
      \o [i \in 1..Len(choices) |-> Println(<<"  ", i, ". ", choices[i]>>)]

ChoosePrompt(choices) == <<"Choose (1-", Len(choices), ")">>

\* choose taking the user's number as a 0-based index.
ChooseIterZeroBased(prompt, choices, ev) ==
    LET t == TryAskOnce("usize", ChoosePrompt(choices), ev)
        shown == ListLines(prompt, choices) \o t.out
    IN  IF t.v.ok /\ t.v.v < Len(choices)
        THEN [done |-> TRUE, v |-> choices[t.v.v + 1], out |-> shown]
        ELSE IF t.v.ok
        THEN [done |-> FALSE,
              out |-> shown \o <<Eprintln(<<"Please choose between 1 and ",
                                            Len(choices)>>)>>]
        ELSE [done |-> FALSE, out |-> shown \o <<Eprintln(Display(t.v.e))>>]

\* One pass of choose's loop.
ChooseIter(prompt, choices, ev) ==
    LET t == TryAskOnce("usize", ChoosePrompt(choices), ev)
        shown == ListLines(prompt, choices) \o t.out
    IN  IF t.v.ok /\ t.v.v >= 1 /\ t.v.v <= Len(choices)
        THEN [done |-> TRUE, v |-> choices[t.v.v], out |-> shown]
        ELSE IF t.v.ok
        THEN [done |-> FALSE,
              out |-> shown \o <<Eprintln(<<"Please choose between 1 and ",
                                            Len(choices)>>)>>]
        ELSE [done |-> FALSE, out |-> shown \o <<Eprintln(Display(t.v.e))>>]

MultiSelectHint ==
    "Enter numbers separated by commas (e.g., 1,3,5) or 'all' or 'none':"

\* What multi_select prints at the top of each pass of its loop.
MultiSelectShow(prompt, choices) ==
    ListLines(prompt, choices) \o <<Println(<<MultiSelectHint>>)>>

RECURSIVE SelectPartsNewestFirst(_, _, _)
\* multi_select's for loop putting each picked option in front of the others.
SelectPartsNewestFirst(parts, choices, selected) ==
    IF parts = <<>> THEN [valid |-> TRUE, selected |-> selected, out |-> <<>>]
    ELSE LET r == StdParseUsize(Head(parts))
         IN  IF r.ok /\ r.v >= 1 /\ r.v <= Len(choices)
             THEN SelectPartsNewestFirst(Tail(parts), choices,
                                         <<choices[r.v]>> \o selected)
             ELSE [valid |-> FALSE, selected |-> selected,
                   out |-> <<Eprintln(
                              <<"Please enter numbers separated by commas">>)>>]

RECURSIVE SelectPartsSkippingBadPart(_, _, _)
\* multi_select's for loop reporting a bad part and going on with the next,
\* `valid = false; break` left out.
SelectPartsSkippingBadPart(parts, choices, selected) ==
    IF parts = <<>> THEN [valid |-> TRUE, selected |-> selected, out |-> <<>>]
    ELSE LET r == StdParseUsize(Head(parts))
             rest == SelectPartsSkippingBadPart(
                       Tail(parts), choices,
                       IF r.ok /\ r.v >= 1 /\ r.v <= Len(choices)
                       THEN Append(selected, choices[r.v]) ELSE selected)
         IN  IF r.ok /\ r.v >= 1 /\ r.v <= Len(choices)
             THEN rest
             ELSE [valid |-> TRUE, selected |-> rest.selected,
                   out |-> <<Eprintln(
                              <<"Please enter numbers separated by commas">>)>>
                             \o rest.out]

RECURSIVE SelectParts(_, _, _)
\* multi_select's for loop over the parts: the options picked so far, until
\* the first part that is no index of choices.
SelectParts(parts, choices, selected) ==
    IF parts = <<>> THEN [valid |-> TRUE, selected |-> selected, out |-> <<>>]
    ELSE LET r == StdParseUsize(Head(parts))
         IN  IF r.ok /\ r.v >= 1 /\ r.v <= Len(choices)
             THEN SelectParts(Tail(parts), choices,
                              Append(selected, choices[r.v]))
             ELSE IF r.ok
             THEN [valid |-> FALSE, selected |-> selected,
                   out |-> <<Eprintln(<<r.v, " is not a valid option (1-",
                                        Len(choices), ")">>)>>]
             ELSE [valid |-> FALSE, selected |-> selected,
                   out |-> <<Eprintln(
                              <<"Please enter numbers separated by commas">>)>>]

\* multi_select comparing the answer with "none" and "all" as typed, the
\* to_lowercase of line 133 left out.
MultiSelectRestCaseSensitive(choices, answer) ==
    LET input == Trim(answer)
    IN  IF input = <<"n", "o", "n", "e">> \/ input = <<>>
        THEN [done |-> TRUE, v |-> <<>>, out |-> <<>>]
        ELSE IF input = <<"a", "l", "l">>
        THEN [done |-> TRUE, v |-> choices, out |-> <<>>]
        ELSE LET parts == [i \in 1..Len(SplitOn(input, ",")) |->
                              Trim(SplitOn(input, ",")[i])]
                 s == SelectParts(parts, choices, <<>>)
             IN  IF s.valid
                 THEN [done |-> TRUE, v |-> s.selected, out |-> s.out]
                 ELSE [done |-> FALSE, out |-> s.out]

\* The rest of a pass of multi_select's loop, once ask::<String> returned.
MultiSelectRest(choices, answer) ==
    LET input == ToLower(Trim(answer))
    IN  IF input = <<"n", "o", "n", "e">> \/ input = <<>>
        THEN [done |-> TRUE, v |-> <<>>, out |-> <<>>]
        ELSE IF input = <<"a", "l", "l">>
        THEN [done |-> TRUE, v |-> choices, out |-> <<>>]
        ELSE LET parts == [i \in 1..Len(SplitOn(input, ",")) |->
                              Trim(SplitOn(input, ",")[i])]
                 s == SelectParts(parts, choices, <<>>)
             IN  IF s.valid
                 THEN [done |-> TRUE, v |-> s.selected, out |-> s.out]
                 ELSE [done |-> FALSE, out |-> s.out]

(***************************************************************************)
(* The state: one call of a prompt-engine function, of a codec or of        *)
(* Form::collect under observation.                                        *)
(***************************************************************************)
VARIABLES
    call,       \* the function called and its arguments
    pc,         \* where the call stands: entry, loop, ask, done, panic
    ret,        \* what the call returned, or the panic that ended it
    reads,      \* the read_line events the call has consumed, in order
    out,        \* everything the call wrote to the console, in order
    vcalls,     \* the values the caller's validator was called on, in order
    closedAfter, \* Some(n) once the input channel is permanently exhausted,
                \* n being the reads the call had consumed by then
    field,      \* collect: the number of the field its for loop is at
    results,    \* collect: its HashMap, a function from keys to values
    log,        \* collect: for each field run to its end, in order, the
                \* value it gave and how much had been read and written
    iter        \* the keys a caller's iteration over the returned HashMap
                \* yielded, in order

formVars == <<field, results, log, iter>>

vars == <<call, pc, ret, reads, out, vcalls, closedAfter, field, results,
          log, iter>>

\* The input channel is permanently exhausted: every read_line from now on
\* reports end-of-stream or a failure.
exhausted == closedAfter.some

NoRet == [tag |-> "none"]
Returned(v) == [tag |-> "ret", v |-> v]
Panicked(msg) == [tag |-> "panic", msg |-> msg]

\* The option lists of the model: the first n of these names.
OptionNames == <<"red", "green", "blue", "cyan", "pink">>
Choices(n) == SubSeq(OptionNames, 1, n)

NL(text) == Line(text \o <<"\n">>)

\* The lines the user may type at a prompt for a value of type T.
LinesFor(T) ==
    CASE T = "String" ->
            {NL(<<"h", "i">>), NL(<<" ", "h", "i", "\t">>), NL(<<>>),
             NL(<<" ", " ">>)}
      [] T = "bool" ->
            {NL(<<"y">>), NL(<<" ", "N", "o", " ">>), NL(<<"m", "a", "y">>),
             NL(<<>>)}
      [] T = "usize" ->
            {NL(<<"2">>), NL(<<" ", "+", "7">>), NL(<<"0">>), NL(<<"-", "1">>),
             NL(<<>>)}
      [] T = "Option<usize>" ->
            {NL(<<"5">>), NL(<<"N", "O", "N", "E">>), NL(<<"-">>),
             NL(<<"x">>), NL(<<>>)}

\* A number above usize::MAX: 2 followed by twenty zeros.
HugeNumber == <<"2">> \o [i \in 1..20 |-> "0"]

\* The lines the user may type at choose's prompt: every index from 0 to
\* one past the longest list, and texts that are no index.
ChooseLines ==
    {NL(<<Digits[i + 1]>>) : i \in 0..(MaxOptions + 1)}
      \cup {NL(<<"+", "2">>), NL(<<" ", "0", "1", " ">>), NL(<<"x">>),
            NL(<<>>), NL(HugeNumber)}

\* The lines the user may type at multi_select's prompt.
MultiSelectLines ==
    {NL(<<"n", "o", "n", "e">>), NL(<<"N", "o", "N", "E">>), NL(<<>>),
     NL(<<" ", "\t">>), NL(<<"a", "l", "l">>), NL(<<" ", "A", "l", "L">>),
     NL(<<"3", ",", "1">>), NL(<<"1", ",", " ", "1">>),
     NL(<<"1", ",", ",", "2">>), NL(<<"1", ",">>), NL(<<"2", ",", "0">>),
     NL(<<"a", "l", "l", ",", "1">>), NL(<<"1", ",", "9">>)}

\* The validators, with the caller's message if any, a caller hands to
\* ask_with_validation for a value of type T.
ValidatorsFor(T) ==
    IF T = "String"
    THEN {[validator |-> not_empty, error_message |-> None],
          [validator |-> min_length(3),
           error_message |-> Some(<<"At least 3 characters">>)]}
    ELSE {[validator |-> is_positive, error_message |-> None],
          [validator |-> in_range(1, 3),
           error_message |-> Some(<<"Between 1 and 3">>)]}

\* The default a caller hands to ask_with_default for a value of type T.
DefaultFor(T) ==
    CASE T = "String" -> <<"d", "f", "l", "t">>
      [] T = "bool" -> TRUE
      [] T = "usize" -> 42
      [] T = "Option<usize>" -> Some(9)

\* The lines the user may type during the call.
CallLines ==
    CASE call.op = "choose" -> ChooseLines
      [] call.op = "multi_select" -> MultiSelectLines
      [] OTHER -> LinesFor(call.T)

\* The events the next read_line can meet.
Events == IF exhausted THEN {EofEv, ErrEv} ELSE CallLines \cup {EofEv, ErrEv}

CanRead == Len(reads) < MaxReads

Init ==
    /\ \/ \E T \in Types : call = [op |-> "ask", T |-> T, prompt |-> "P"]
       \/ \E T \in Types : call = [op |-> "try_ask", T |-> T, prompt |-> "P"]
       \/ \E T \in {"String", "usize"} : \E v \in ValidatorsFor(T) :
            call = [op |-> "ask_with_validation", T |-> T, prompt |-> "P",
                    validator |-> v.validator,
                    error_message |-> v.error_message]
       \/ \E T \in Types :
            call = [op |-> "ask_with_default", T |-> T, prompt |-> "P",
                    default |-> DefaultFor(T)]
       \/ \E n \in 0..MaxOptions :
            call = [op |-> "choose", prompt |-> "P", choices |-> Choices(n)]
       \/ \E n \in 0..MaxOptions :
            call = [op |-> "multi_select", prompt |-> "P",
                    choices |-> Choices(n)]
    /\ pc = IF call.op \in {"choose", "multi_select"} THEN "entry" ELSE "loop"
    /\ ret = NoRet
    /\ reads = <<>>
    /\ out = <<>>
    /\ vcalls = <<>>
    /\ closedAfter = None
    /\ field = 0
    /\ results = <<>>
    /\ log = <<>>
    /\ iter = <<>>

\* The input channel breaks or reaches its end for good.
Close ==
    /\ ~exhausted
    /\ pc \notin {"done", "panic"}
    /\ closedAfter' = Some(Len(reads))
    /\ UNCHANGED <<call, pc, ret, reads, out, vcalls>>
    /\ UNCHANGED formVars

\* ask: one pass of its loop.
Ask ==
    /\ call.op = "ask" /\ pc = "loop" /\ CanRead
    /\ \E ev \in Events :
         LET s == AskIter(call.T, call.prompt, ev)
         IN  /\ reads' = Append(reads, ev)
             /\ out' = out \o s.out
             /\ pc' = IF s.done THEN "done" ELSE "loop"
             /\ ret' = IF s.done THEN Returned(s.v) ELSE ret
    /\ UNCHANGED <<call, vcalls, closedAfter>>
    /\ UNCHANGED formVars

\* try_ask: the whole call.
TryAsk ==
    /\ call.op = "try_ask" /\ pc = "loop" /\ CanRead
    /\ \E ev \in Events :
         LET s == TryAskOnce(call.T, call.prompt, ev)
         IN  /\ reads' = Append(reads, ev)
             /\ out' = out \o s.out
             /\ pc' = "done"
             /\ ret' = Returned(s.v)
    /\ UNCHANGED <<call, vcalls, closedAfter>>
    /\ UNCHANGED formVars

\* ask_with_validation: one pass of its loop.
AskWithValidation ==
    /\ call.op = "ask_with_validation" /\ pc = "loop" /\ CanRead
    /\ \E ev \in Events :
         LET s == AskValidIter(call.T, call.prompt, call.validator,
                               call.error_message, ev)
         IN  /\ reads' = Append(reads, ev)
             /\ out' = out \o s.out
             /\ vcalls' = vcalls \o s.checked
             /\ pc' = IF s.done THEN "done" ELSE "loop"
             /\ ret' = IF s.done THEN Returned(s.v) ELSE ret
    /\ UNCHANGED <<call, closedAfter>>
    /\ UNCHANGED formVars

\* ask_with_default: the whole call.
AskWithDefault ==
    /\ call.op = "ask_with_default" /\ pc = "loop" /\ CanRead
    /\ \E ev \in Events :
         LET s == AskDefaultOnce(call.T, call.prompt, call.default, ev)
         IN  /\ reads' = Append(reads, ev)
             /\ out' = out \o s.out
             /\ pc' = "done"
             /\ ret' = Returned(s.v)
    /\ UNCHANGED <<call, vcalls, closedAfter>>
    /\ UNCHANGED formVars

\* choose entering its loop without the check of the list.
ChooseEntryUnchecked ==
    /\ call.op = "choose" /\ pc = "entry"
    /\ pc' = "loop"
    /\ UNCHANGED <<call, ret, reads, out, vcalls, closedAfter>>
    /\ UNCHANGED formVars

\* choose: the check of the list, before the loop.
ChooseEntry ==
    /\ call.op = "choose" /\ pc = "entry"
    /\ IF call.choices = <<>>
       THEN pc' = "panic" /\ ret' = Panicked(EmptyListPanic)
       ELSE pc' = "loop" /\ ret' = ret
    /\ UNCHANGED <<call, reads, out, vcalls, closedAfter>>
    /\ UNCHANGED formVars

\* choose: one pass of its loop.
Choose ==
    /\ call.op = "choose" /\ pc = "loop" /\ CanRead
    /\ \E ev \in Events :
         LET s == ChooseIter(call.prompt, call.choices, ev)
         IN  /\ reads' = Append(reads, ev)
             /\ out' = out \o s.out
             /\ pc' = IF s.done THEN "done" ELSE "loop"
             /\ ret' = IF s.done THEN Returned(s.v) ELSE ret
    /\ UNCHANGED <<call, vcalls, closedAfter>>
    /\ UNCHANGED formVars

\* multi_select entering its loop without the check of the list.
MultiSelectEntryUnchecked ==
    /\ call.op = "multi_select" /\ pc = "entry"
    /\ pc' = "loop"
    /\ UNCHANGED <<call, ret, reads, out, vcalls, closedAfter>>
    /\ UNCHANGED formVars

\* multi_select: the check of the list, before the loop.
MultiSelectEntry ==
    /\ call.op = "multi_select" /\ pc = "entry"
    /\ IF call.choices = <<>>
       THEN pc' = "done" /\ ret' = Returned(<<>>)
       ELSE pc' = "loop" /\ ret' = ret
    /\ UNCHANGED <<call, reads, out, vcalls, closedAfter>>
    /\ UNCHANGED formVars

\* multi_select: the top of a pass of its loop, up to the call of ask.
MultiSelectShowList ==
    /\ call.op = "multi_select" /\ pc = "loop"
    /\ out' = out \o MultiSelectShow(call.prompt, call.choices)
    /\ pc' = "ask"
    /\ UNCHANGED <<call, ret, reads, vcalls, closedAfter>>
    /\ UNCHANGED formVars

\* multi_select: one pass of the loop of ask::<String>("Selection") and, when
\* that returns, the rest of the pass of multi_select's loop.
MultiSelectAsk ==
    /\ call.op = "multi_select" /\ pc = "ask" /\ CanRead
    /\ \E ev \in Events :
         LET a == AskIter("String", "Selection", ev)
         IN  /\ reads' = Append(reads, ev)
             /\ IF ~a.done
                THEN /\ out' = out \o a.out
                     /\ pc' = "ask"
                     /\ ret' = ret
                ELSE LET s == MultiSelectRest(call.choices, a.v)
                     IN  /\ out' = out \o a.out \o s.out
                         /\ pc' = IF s.done THEN "done" ELSE "loop"
                         /\ ret' = IF s.done THEN Returned(s.v) ELSE ret
    /\ UNCHANGED <<call, vcalls, closedAfter>>
    /\ UNCHANGED formVars

Next ==
    \/ Close
    \/ Ask
    \/ TryAsk
    \/ AskWithValidation
    \/ AskWithDefault
    \/ ChooseEntry
    \/ Choose
    \/ MultiSelectEntry
    \/ MultiSelectShowList
    \/ MultiSelectAsk

Spec == Init /\ [][Next]_vars

(***************************************************************************)
(* A codec called on its own: T::parse(input), as any caller of the public *)
(* Parse trait may call it. It touches nothing but its argument.           *)
(***************************************************************************)
\* char::to_uppercase, over the characters of the model.
UpperChar(c) ==
    IF \E i \in 1..Len(LowerCase) : LowerCase[i] = c
    THEN UpperCase[CHOOSE i \in 1..Len(LowerCase) : LowerCase[i] = c]
    ELSE c

RECURSIVE CaseVariants(_)
\* The word in every mix of upper and lower case.
CaseVariants(w) ==
    IF w = <<>> THEN {<<>>}
    ELSE {<<c>> \o r : c \in {Head(w), UpperChar(Head(w))},
                       r \in CaseVariants(Tail(w))}

\* The runs of at most MaxPad blanks and tabs.
Pads == UNION {[1..k -> {" ", "\t"}] : k \in 0..MaxPad}

\* The texts with whitespace put around them.
Padded(texts) == {l \o t \o r : l \in Pads, t \in texts, r \in Pads}

\* Texts handed to the boolean codec: its words in every letter case, and
\* texts that are none of them.
BoolInputs ==
    Padded(UNION {CaseVariants(w) : w \in BoolTrue \cup BoolFalse}
           \cup {<<>>, <<"y", "e">>, <<"y", "e", "s", "s">>, <<"2">>,
                 <<"o", " ", "n">>, <<"m", "a", "y">>, <<"n", "o", "n", "e">>})

\* Texts handed to the Option<T> codec: the words for no value in every
\* letter case, and texts for T.
OptionInputs ==
    Padded(UNION {CaseVariants(w) : w \in OptionNone}
           \cup {<<>>, <<"5">>, <<"0", "7">>, <<"x">>, <<"h", "i">>,
                 <<"y", "e", "s">>, <<"n", "o">>, <<"n", "o", "n", "e", "e">>,
                 <<"-", "1">>, <<"-", "-">>, <<"n", "o", " ", "n", "e">>})

ListAlphabet == {"1", "x", "y", ",", ";", "|", " "}

\* Texts handed to the Vec<T> codec: every text over ListAlphabet of at most
\* MaxTextLen characters, and longer ones that mix the separators.
VecInputs ==
    UNION {[1..k -> ListAlphabet] : k \in 0..MaxTextLen}
      \cup {<<"1", ",", "2", ";", "3">>, <<"1", ";", "2">>, <<"1", " ", "2">>,
            <<"1", "|", "2", ";", "3">>, <<"1", "|", "2", " ", "3">>,
            <<" ", "1", " ", ",", "\t", "2", " ">>, <<"1", ",", ",", "2">>,
            <<"1", " ", " ", "\t", "2">>, <<";", "1", ";", ";", "y", ";">>,
            <<"1", ",", "2", ",", "x">>, <<"x", ",", "1", ",", "2">>,
            <<"y", " ", "n", "o">>, <<" ", "\t">>, <<"1", "\n">>}

RECURSIVE JoinParts(_, _)
\* The parts with the separator between them.
JoinParts(parts, sep) ==
    IF Len(parts) = 1 THEN Head(parts)
    ELSE Head(parts) \o sep \o JoinParts(Tail(parts), sep)

\* Texts handed to the tuple codecs: up to MaxParts parts, some of them empty
\* or padded, with commas or blanks between them, and the pairs of decimal
\* numbers.
TupleInputs ==
    {JoinParts(parts, sep) :
       parts \in UNION {[1..k -> {<<>>, <<"1">>, <<"a">>, <<" ", "1">>}] :
                          k \in 1..MaxParts},
       sep \in {<<",">>, <<" ">>}}
      \cup {<<"1", ".", "5", ",", "2", ".", "5">>,
            <<"1", ".", "5", " ", "2", ".", "5">>, <<"1", ".", "5">>,
            <<"1", ".", "5", ",">>, <<"a", ",", " ", "\t">>}

\* The integers whose decimal text is handed to the codec of an integer
\* type: all those around the range of the 8-bit types, and those at the
\* ends of the ranges of the 16-bit types.
IntCandidates(T) ==
    IF T \in {"u8", "i8"} THEN (0 - 140)..270
    ELSE ((0 - 32770)..(0 - 32766)) \cup ((0 - 2)..2) \cup (32766..32769)
           \cup (65534..65537) \cup {0 - 65536, 70000, 100000}

\* Texts handed to the codec of an integer type: the decimal texts of the
\* candidates, and texts that are no decimal text of an integer.
IntInputs(T) ==
    {IntToString(n) : n \in IntCandidates(T)}
      \cup {<<>>, <<"+">>, <<"-">>, <<"1", "x">>, <<"+", "5">>, <<"-", "0">>,
            <<" ", "7", " ">>, <<"0", "0", "7">>, <<"1", ".", "0">>,
            <<"3", "0", "0", "0", "0", "0", "0", "0", "0", "0", "0">>}

\* The types whose codec is called on its own.
CodecTypes ==
    {"bool"} \cup IntTypes \cup OptionTypes \cup VecTypes \cup PairTypes
      \cup TripleTypes

\* The scalar types whose values are written as text and read back.
ScalarTypes == {"String", "bool", "char", "usize"} \cup IntTypes

\* The values of a scalar type written as text and read back.
ValuesOf(T) ==
    CASE T = "String" ->
           {<<>>, <<"h", "i">>, <<" ", "h", "i", " ">>, <<"n", "o", "n", "e">>,
            <<" ">>}
      [] T = "bool" -> {TRUE, FALSE}
      [] T = "char" ->
           {"a", "Y", "1", ",", "-", "U+00E9", " ", "\t", "\n"}
      [] T = "usize" -> {0, 7, 1000000}
      [] T \in {"u8", "i8"} -> IntMin(T)..IntMax(T)
      [] T \in {"u16", "i16"} ->
           {IntMin(T), IntMin(T) + 1, 0, 1, 255, 256, IntMax(T) - 1,
            IntMax(T)}

\* The texts handed to the codec of T.
InputsFor(T) ==
    CASE T = "bool" -> BoolInputs
      [] T \in OptionTypes -> OptionInputs
      [] T \in IntTypes -> IntInputs(T)
      [] T \in VecTypes -> VecInputs
      [] T \in PairTypes \cup TripleTypes -> TupleInputs

CodecInit ==
    /\ \/ \E T \in CodecTypes : \E input \in InputsFor(T) :
            call = [op |-> "parse", T |-> T, input |-> input]
       \/ \E T \in ScalarTypes : \E v \in ValuesOf(T) :
            call = [op |-> "round_trip", T |-> T, v |-> v]
    /\ pc = "entry"
    /\ ret = NoRet
    /\ reads = <<>>
    /\ out = <<>>
    /\ vcalls = <<>>
    /\ closedAfter = None
    /\ field = 0
    /\ results = <<>>
    /\ log = <<>>
    /\ iter = <<>>

\* T::parse(input): the whole call.
ParseCall ==
    /\ call.op = "parse" /\ pc = "entry"
    /\ pc' = "done"
    /\ ret' = Returned(ParseAs(call.T, call.input))
    /\ UNCHANGED <<call, reads, out, vcalls, closedAfter>>
    /\ UNCHANGED formVars

\* T::parse(&v.to_string()): a value written as text and read back.
RoundTrip ==
    /\ call.op = "round_trip" /\ pc = "entry"
    /\ pc' = "done"
    /\ ret' = Returned(ParseAs(call.T, ToString(call.T, call.v)))
    /\ UNCHANGED <<call, reads, out, vcalls, closedAfter>>
    /\ UNCHANGED formVars

CodecNext ==
    \/ ParseCall
    \/ RoundTrip

CodecSpec == CodecInit /\ [][CodecNext]_vars

(***************************************************************************)
(* The form (src/src/core.rs, Form): the builder's methods declare the     *)
(* fields, collect runs them.                                              *)
(***************************************************************************)
\* enum FieldType
Text == [kind |-> "Text"]
Number == [kind |-> "Number"]
Boolean == [kind |-> "Boolean"]
Choice(choices) == [kind |-> "Choice", choices |-> choices]
MultiChoice(choices) == [kind |-> "MultiChoice", choices |-> choices]
Optional == [kind |-> "Optional"]
ValidatedText(validator, error_msg) ==
    [kind |-> "ValidatedText", validator |-> validator,
     error_msg |-> error_msg]

\* struct FormField
FormField(key, prompt, field_type) ==
    [key |-> key, prompt |-> prompt, field_type |-> field_type]

\* The prompts of the model, one for each place on a form.
PromptNames == <<"P1", "P2", "P3", "P4">>

\* format!("{} (optional)", prompt)
OptionalPrompt(prompt) ==
    CASE prompt = "P1" -> "P1 (optional)"
      [] prompt = "P2" -> "P2 (optional)"
      [] prompt = "P3" -> "P3 (optional)"
      [] prompt = "P4" -> "P4 (optional)"

\* The builder's methods: each pushes one field onto self.fields.
text(fields, key, prompt) == Append(fields, FormField(key, prompt, Text))
number(fields, key, prompt) == Append(fields, FormField(key, prompt, Number))
boolean(fields, key, prompt) ==
    Append(fields, FormField(key, prompt, Boolean))
choice(fields, key, prompt, choices) ==
    Append(fields, FormField(key, prompt, Choice(choices)))
multi_choice(fields, key, prompt, choices) ==
    Append(fields, FormField(key, prompt, MultiChoice(choices)))
optional(fields, key, prompt) ==
    Append(fields, FormField(key, OptionalPrompt(prompt), Optional))
validated_text(fields, key, prompt, validator, error_msg) ==
    Append(fields, FormField(key, prompt, ValidatedText(validator, error_msg)))

\* <&str>::to_string, over the option names of the model.
Chars(name) ==
    CASE name = "red" -> <<"r", "e", "d">>
      [] name = "green" -> <<"g", "r", "e", "e", "n">>
      [] name = "blue" -> <<"b", "l", "u", "e">>
      [] name = "cyan" -> <<"c", "y", "a", "n">>
      [] name = "pink" -> <<"p", "i", "n", "k">>

RECURSIVE Join(_, _)
\* [&str]::join
Join(names, sep) ==
    IF names = <<>> THEN <<>>
    ELSE IF Len(names) = 1 THEN Chars(Head(names))
    ELSE Chars(Head(names)) \o sep \o Join(Tail(names), sep)

\* The Optional arm storing "" for the words the Option<T> codec reads as no
\* value, too.
OptionalValueNoneAsEmpty(input) ==
    IF Trim(input) = <<>> \/ ToLower(Trim(input)) \in OptionNone
    THEN <<>> ELSE input

\* The Optional arm of collect, after its ask::<String>.
OptionalValue(input) == IF Trim(input) = <<>> THEN <<>> ELSE input

\* The value collect stores for a field: what the arm of its match makes of
\* what the prompt function returned.
CollectValue(field_type, v) ==
    CASE field_type.kind = "Text" -> v
      [] field_type.kind = "Number" -> F64ToString(v)
      [] field_type.kind = "Boolean" -> BoolToString(v)
      [] field_type.kind = "Choice" -> Chars(v)
      [] field_type.kind = "MultiChoice" -> Join(v, <<",", " ">>)
      [] field_type.kind = "Optional" -> OptionalValue(v)
      [] field_type.kind = "ValidatedText" -> v

\* One pass of the loop of the prompt function the arm of a field calls, for
\* the kinds whose function reads once in each pass.
FieldIter(f, ev) ==
    CASE f.field_type.kind \in {"Text", "Optional"} ->
           AskIter("String", f.prompt, ev)
      [] f.field_type.kind = "Number" -> AskIter("f64", f.prompt, ev)
      [] f.field_type.kind = "Boolean" -> AskIter("bool", f.prompt, ev)
      [] f.field_type.kind = "Choice" ->
           ChooseIter(f.prompt, f.field_type.choices, ev)
      [] f.field_type.kind = "ValidatedText" ->
           AskValidIter("String", f.prompt, f.field_type.validator,
                        Some(f.field_type.error_msg), ev)

\* HashMap::insert leaving the entry of a key it already holds as it is.
InsertKeepingFirst(map, key, value) ==
    [k \in DOMAIN map \cup {key} |-> IF k \in DOMAIN map THEN map[k] ELSE value]

\* HashMap::insert
Insert(map, key, value) ==
    [k \in DOMAIN map \cup {key} |-> IF k = key THEN value ELSE map[k]]

\* The for loop of collect taking the fields from the last declared to the
\* first.
FieldAtReversed(fields, n) == fields[Len(fields) + 1 - n]

\* The field the n-th pass of the for loop of collect takes.
FieldAt(fields, n) == fields[n]

\* The orders in which an iteration over a HashMap of these keys can yield
\* them: std leaves the order unspecified, and seeds its hasher at random.
IterationOrders(keys) ==
    {s \in [1..Cardinality(keys) -> keys] :
       \A i, j \in 1..Cardinality(keys) : i # j => s[i] # s[j]}

\* The keys the fields of the model are declared under.
Keys == {"a", "b"}

\* The validator and message a caller hands to validated_text.
FormValidators ==
    {[validator |-> min_length(3),
      error_msg |-> <<"At least 3 characters">>]}

\* The lines the user may type at the prompt of a field of each kind.
FormLines(kind) ==
    CASE kind = "Text" -> {NL(<<"h", "i">>), NL(<<>>)}
      [] kind = "Number" -> {NL(<<"1", ".", "5", "0">>), NL(<<"x">>)}
      [] kind = "Boolean" -> {NL(<<"Y">>), NL(<<"m", "a", "y">>)}
      [] kind = "Choice" -> {NL(<<"2">>), NL(<<"0">>)}
      [] kind = "MultiChoice" ->
            {NL(<<"2", ",", "1">>), NL(<<"1", ",", "x">>)}
      [] kind = "Optional" ->
            {NL(<<"h", "i">>), NL(<<" ", "\t">>), NL(<<"n", "o", "n", "e">>),
             NL(<<" ", "-">>)}
      [] kind = "ValidatedText" ->
            {NL(<<"h", "e", "l", "l", "o">>), NL(<<"h", "i">>)}

\* The events the next read_line of a field of the kind can meet: a line, or
\* a failure.
FormEvents(kind) == FormLines(kind) \cup {ErrEv}

FormInit ==
    /\ call = [op |-> "collect", fields |-> <<>>]
    /\ pc = "build"
    /\ ret = NoRet
    /\ reads = <<>>
    /\ out = <<>>
    /\ vcalls = <<>>
    /\ closedAfter = None
    /\ field = 0
    /\ results = <<>>
    /\ log = <<>>
    /\ iter = <<>>

\* The builder has room for one more field.
Building ==
    call.op = "collect" /\ pc = "build" /\ Len(call.fields) < MaxFields

\* The prompt of the field declared next.
NextPrompt == PromptNames[Len(call.fields) + 1]

\* A method of the builder returns the form with its fields.
Declare(fields) ==
    /\ call' = [call EXCEPT !.fields = fields]
    /\ UNCHANGED <<pc, ret, reads, out, vcalls, closedAfter>>
    /\ UNCHANGED formVars

FormText ==
    /\ Building
    /\ \E key \in Keys : Declare(text(call.fields, key, NextPrompt))

FormNumber ==
    /\ Building
    /\ \E key \in Keys : Declare(number(call.fields, key, NextPrompt))

FormBoolean ==
    /\ Building
    /\ \E key \in Keys : Declare(boolean(call.fields, key, NextPrompt))

FormChoice ==
    /\ Building
    /\ \E key \in Keys : \E n \in {0, 2} :
         Declare(choice(call.fields, key, NextPrompt, Choices(n)))

FormMultiChoice ==
    /\ Building
    /\ \E key \in Keys : \E n \in {0, 2} :
         Declare(multi_choice(call.fields, key, NextPrompt, Choices(n)))

FormOptional ==
    /\ Building
    /\ \E key \in Keys : Declare(optional(call.fields, key, NextPrompt))

FormValidatedText ==
    /\ Building
    /\ \E key \in Keys : \E v \in FormValidators :
         Declare(validated_text(call.fields, key, NextPrompt, v.validator,
                                v.error_msg))

\* collect is called: let mut results = HashMap::new().
CollectEntry ==
    /\ call.op = "collect" /\ pc = "build"
    /\ pc' = "loop"
    /\ field' = 1
    /\ results' = <<>>
    /\ UNCHANGED <<call, ret, reads, out, vcalls, closedAfter, log, iter>>

\* The for loop of collect stands at a field of the kind.
AtField(kind) ==
    /\ call.op = "collect"
    /\ field >= 1 /\ field <= Len(call.fields)
    /\ FieldAt(call.fields, field).field_type.kind = kind

\* The prompt function of the field returned v, newReads and newOut being
\* what has been read and written by then: the arm makes the value, insert
\* stores it and the for loop moves on.
FieldDone(v, newReads, newOut) ==
    LET f == FieldAt(call.fields, field)
        value == CollectValue(f.field_type, v)
    IN  /\ results' = Insert(results, f.key, value)
        /\ log' = Append(log, [value |-> value, reads |-> Len(newReads),
                               out |-> Len(newOut)])
        /\ field' = field + 1

\* One pass of the loop of the prompt function of a field of the kind.
CollectPass(kind) ==
    /\ AtField(kind) /\ pc = "loop" /\ CanRead
    /\ \E ev \in FormEvents(kind) :
         LET s == FieldIter(FieldAt(call.fields, field), ev)
         IN  /\ reads' = Append(reads, ev)
             /\ out' = out \o s.out
             /\ vcalls' = IF kind = "ValidatedText" THEN vcalls \o s.checked
                          ELSE vcalls
             /\ IF s.done
                THEN FieldDone(s.v, Append(reads, ev), out \o s.out)
                ELSE UNCHANGED <<field, results, log>>
    /\ UNCHANGED <<call, pc, ret, closedAfter, iter>>

CollectText == CollectPass("Text")

CollectNumber == CollectPass("Number")

CollectBoolean == CollectPass("Boolean")

CollectOptional == CollectPass("Optional")

CollectValidatedText == CollectPass("ValidatedText")

\* The Choice arm storing "" for an empty list, as multi_select does, where
\* choose panics.
CollectChoiceSkippingEmpty ==
    \/ /\ AtField("Choice") /\ pc = "loop"
       /\ FieldAt(call.fields, field).field_type.choices = <<>>
       /\ results'
            = Insert(results, FieldAt(call.fields, field).key, <<>>)
       /\ log' = Append(log, [value |-> <<>>, reads |-> Len(reads),
                              out |-> Len(out)])
       /\ field' = field + 1
       /\ UNCHANGED <<call, pc, ret, reads, out, vcalls, closedAfter, iter>>
    \/ /\ AtField("Choice")
       /\ FieldAt(call.fields, field).field_type.choices # <<>>
       /\ CollectPass("Choice")

\* The Choice arm: choose panics on an empty list, and else loops.
CollectChoice ==
    \/ /\ AtField("Choice") /\ pc = "loop"
       /\ FieldAt(call.fields, field).field_type.choices = <<>>
       /\ pc' = "panic"
       /\ ret' = Panicked(EmptyListPanic)
       /\ UNCHANGED <<call, reads, out, vcalls, closedAfter>>
       /\ UNCHANGED formVars
    \/ /\ AtField("Choice")
       /\ FieldAt(call.fields, field).field_type.choices # <<>>
       /\ CollectPass("Choice")

\* The MultiChoice arm: multi_select returns at once on an empty list, and
\* else shows the list at the top of a pass of its loop.
CollectMultiChoice ==
    /\ AtField("MultiChoice") /\ pc = "loop"
    /\ LET f == FieldAt(call.fields, field)
       IN  IF f.field_type.choices = <<>>
           THEN /\ FieldDone(<<>>, reads, out)
                /\ UNCHANGED <<pc, out>>
           ELSE /\ out' = out \o MultiSelectShow(f.prompt,
                                                 f.field_type.choices)
                /\ pc' = "ask"
                /\ UNCHANGED <<field, results, log>>
    /\ UNCHANGED <<call, ret, reads, vcalls, closedAfter, iter>>

\* The MultiChoice arm: one pass of the loop of ask::<String>("Selection")
\* and, when that returns, the rest of the pass of multi_select's loop.
CollectMultiChoiceAsk ==
    /\ AtField("MultiChoice") /\ pc = "ask" /\ CanRead
    /\ \E ev \in FormEvents("MultiChoice") :
         LET a == AskIter("String", "Selection", ev)
             s == MultiSelectRest(
                    FieldAt(call.fields, field).field_type.choices, a.v)
         IN  /\ reads' = Append(reads, ev)
             /\ IF ~a.done
                THEN /\ out' = out \o a.out
                     /\ pc' = "ask"
                     /\ UNCHANGED <<field, results, log>>
                ELSE /\ out' = out \o a.out \o s.out
                     /\ pc' = "loop"
                     /\ IF s.done
                        THEN FieldDone(s.v, Append(reads, ev),
                                       out \o a.out \o s.out)
                        ELSE UNCHANGED <<field, results, log>>
    /\ UNCHANGED <<call, ret, vcalls, closedAfter, iter>>

\* The for loop is over: collect returns results.
CollectReturn ==
    /\ call.op = "collect" /\ pc = "loop"
    /\ field = Len(call.fields) + 1
    /\ pc' = "done"
    /\ ret' = Returned(results)
    /\ UNCHANGED <<call, reads, out, vcalls, closedAfter, field, results,
                   log, iter>>

\* The caller iterates over the HashMap collect returned.
Iterate ==
    /\ call.op = "collect" /\ pc = "done"
    /\ pc' = "iterated"
    /\ iter' \in IterationOrders(DOMAIN ret.v)
    /\ UNCHANGED <<call, ret, reads, out, vcalls, closedAfter, field,
                   results, log>>

FormNext ==
    \/ FormText
    \/ FormNumber
    \/ FormBoolean
    \/ FormChoice
    \/ FormMultiChoice
    \/ FormOptional
    \/ FormValidatedText
    \/ CollectEntry
    \/ CollectText
    \/ CollectNumber
    \/ CollectBoolean
    \/ CollectChoice
    \/ CollectMultiChoice
    \/ CollectMultiChoiceAsk
    \/ CollectOptional
    \/ CollectValidatedText
    \/ CollectReturn
    \/ Iterate

FormSpec == FormInit /\ [][FormNext]_vars

(***************************************************************************)
(* Validators called on their own: a caller holds a validator and a value, *)
(* wraps the validator with and / or, and calls it.                        *)
(***************************************************************************)
\* The validators of the library for a value of type T.
Primitives(T) ==
    IF T = "String"
    THEN {[v |-> not_empty], [v |-> min_length(2)], [v |-> max_length(2)]}
    ELSE {[v |-> is_positive], [v |-> in_range(1, 3)]}

\* The values a validator for type T is called on.
ValidatedValues(T) ==
    IF T = "String"
    THEN {<<>>, <<" ">>, <<"a">>, <<"a", "b">>, <<"a", "b", "c">>,
          <<"U+00E9">>, <<"U+00E9", "a">>, <<"U+00E9", "U+00DF">>}
    ELSE (0 - 1)..4

RECURSIVE Combined(_)
\* How many and / or closures a validator is made of.
Combined(validator) ==
    IF validator.f \in {"and", "or"}
    THEN 1 + Combined(validator.validator1) + Combined(validator.validator2)
    ELSE 0

ValidatorInit ==
    /\ \E T \in {"String", "usize"} :
         \E p \in Primitives(T) : \E x \in ValidatedValues(T) :
           call = [op |-> "validate", T |-> T, validator |-> p.v, value |-> x]
    /\ pc = "held"
    /\ ret = NoRet
    /\ reads = <<>>
    /\ out = <<>>
    /\ vcalls = <<>>
    /\ closedAfter = None
    /\ field = 0
    /\ results = <<>>
    /\ log = <<>>
    /\ iter = <<>>

\* The caller replaces the validator it holds by the closure built from it
\* and another validator; neither is called.
Combine(combinator) ==
    /\ call.op = "validate"
    /\ Combined(call.validator) < MaxCombines
    /\ \E p \in Primitives(call.T) : \E first \in BOOLEAN :
         LET built == IF combinator = "and"
                      THEN IF first THEN and(call.validator, p.v)
                                    ELSE and(p.v, call.validator)
                      ELSE IF first THEN or(call.validator, p.v)
                                    ELSE or(p.v, call.validator)
         IN  call' = [call EXCEPT !.validator = built]
    /\ pc' = "held"
    /\ UNCHANGED <<ret, reads, out, vcalls, closedAfter>>
    /\ UNCHANGED formVars

\* and(validator1, validator2)
CombineAnd == Combine("and")

\* or(validator1, validator2)
CombineOr == Combine("or")

\* The caller calls the validator it holds on the value.
CallValidator ==
    /\ call.op = "validate"
    /\ Len(vcalls) < MaxCalls
    /\ pc' = "called"
    /\ ret' = Returned(Validate(call.validator, call.value))
    /\ vcalls' = Append(vcalls, call.value)
    /\ UNCHANGED <<call, reads, out, closedAfter>>
    /\ UNCHANGED formVars

ValidatorNext ==
    \/ CombineAnd
    \/ CombineOr
    \/ CallValidator

ValidatorSpec == ValidatorInit /\ [][ValidatorNext]_vars

(***************************************************************************)
(* Vocabulary of the properties.                                           *)
(***************************************************************************)
\* The read delivered a text (a line or the empty end-of-stream buffer)
\* whose trimmed form the codec of T accepts.
Accepted(T, ev) == ev.k # "err" /\ Parse(T, Trim(ev.text)).ok

\* The codec's value for the trimmed text of the read.
ValueOf(T, ev) == Parse(T, Trim(ev.text)).v

LastRead == reads[Len(reads)]

IsDiagnostic(o) == o.k = "eprintln"

Diagnostics == SelectSeq(out, IsDiagnostic)

(***************************************************************************)
(* C1. ask<T>, for any sequence of reads: every read before the last was    *)
(* rejected (a read failure, or a text the codec of T rejects); ask has    *)
(* returned exactly when the last read is accepted, and then the value is  *)
(* the codec's result for the trimmed text of that read; the console shows *)
(* the prompt once per read and exactly one diagnostic after each rejected *)
(* read, before the next display of the prompt; ask returns no error.      *)
(***************************************************************************)
C1_AskReturnsAtFirstAcceptedLine ==
    call.op = "ask" =>
      /\ \A i \in 1..(Len(reads) - 1) : ~Accepted(call.T, reads[i])
      /\ pc \in {"loop", "done"}
      /\ pc = "done" <=> (reads # <<>> /\ Accepted(call.T, LastRead))
      /\ pc = "done" => ret = Returned(ValueOf(call.T, LastRead))
      /\ pc = "loop" => ret = NoRet
      /\ Len(out) = 2 * Len(reads) - (IF pc = "done" THEN 1 ELSE 0)
      /\ \A i \in 1..Len(out) :
           IF i % 2 = 1
           THEN out[i].k = "print" /\ out[i] = Prompt(call.prompt)
           ELSE out[i].k = "eprintln"

\* ask returned at its third read, after a failed read and a rejected line.
C1_Witness ==
    /\ call.op = "ask" /\ pc = "done" /\ Len(reads) = 3
    /\ reads[1].k = "err"
    /\ reads[2].k = "line" /\ ~Accepted(call.T, reads[2])
    /\ reads[3].k = "line" /\ reads[3].text # Trim(reads[3].text)

(***************************************************************************)
(* C2. As claimed: once the input channel is permanently exhausted, ask<T> *)
(* does not return, whatever T is.                                         *)
(***************************************************************************)
C2_NeverReturnsOnceExhausted ==
    [][(call.op = "ask" /\ exhausted /\ pc = "loop") => pc' # "done"]_vars

(***************************************************************************)
(* C2, amended. Once the input channel is permanently exhausted, a pass of *)
(* ask<T> returns exactly when its read reports end-of-stream and the      *)
(* codec of T accepts the empty text, and it then returns the codec's      *)
(* value for the empty text; so ask<T> never returns at a failed read, and *)
(* never returns at all when the codec of T rejects the empty text.        *)
(***************************************************************************)
C2_ReturnsOnceExhaustedOnlyOnAcceptedEmpty ==
    [][(call.op = "ask" /\ exhausted /\ pc = "loop" /\ reads' # reads) =>
         LET ev == reads'[Len(reads')]
         IN  /\ ev.k \in {"eof", "err"}
             /\ pc' = "done" <=> (ev.k = "eof" /\ Parse(call.T, <<>>).ok)
             /\ pc' = "done" => ret' = Returned(Parse(call.T, <<>>).v)
             /\ pc' # "done" => pc' = "loop" /\ ret' = NoRet]_vars

\* ask<usize> is still in its loop after two reads of an exhausted channel,
\* an end-of-stream and a failure.
C2_Witness ==
    /\ call.op = "ask" /\ call.T = "usize" /\ pc = "loop"
    /\ exhausted /\ closedAfter.v = 0 /\ Len(reads) = 2
    /\ reads[1].k = "eof" /\ reads[2].k = "err"

(***************************************************************************)
(* C3. try_ask<T> makes one attempt: it displays the prompt once, performs *)
(* one read, and returns the codec's result for the trimmed text (a value  *)
(* or the parse failure) or the I/O failure converted to the error type;   *)
(* it writes no diagnostic and reads nothing more.                         *)
(***************************************************************************)
C3_TryAskSingleAttempt ==
    call.op = "try_ask" =>
      /\ Len(reads) <= 1
      /\ pc = "done" <=> Len(reads) = 1
      /\ Diagnostics = <<>>
      /\ pc = "loop" => out = <<>> /\ ret = NoRet
      /\ pc = "done" =>
           /\ out = <<Prompt(call.prompt)>>
           /\ ret.tag = "ret"
           /\ IF LastRead.k = "err"
              THEN /\ ~ret.v.ok
                   /\ ret.v.e.message = <<"Input error: ", "io">>
                   /\ ret.v.e.input = <<>>
                   /\ ret.v.e.expected = "valid input"
              ELSE ret.v = Parse(call.T, Trim(LastRead.text))

\* try_ask returned the parse failure of a line the codec rejects.
C3_Witness ==
    /\ call.op = "try_ask" /\ pc = "done"
    /\ LastRead.k = "line" /\ ~Accepted(call.T, LastRead)
    /\ ~ret.v.ok

(***************************************************************************)
(* C4. ask_with_validation, for any sequence of reads: it has returned     *)
(* exactly when the last read delivered a text that the codec accepts and  *)
(* whose value satisfies the validator, and the value returned is the      *)
(* codec's result for that text; a line that parses but fails the          *)
(* validator leaves the call in its loop, as every other rejected read.    *)
(***************************************************************************)
\* The read delivered a text the codec accepts and the validator passes.
Valid(ev) ==
    /\ Accepted(call.T, ev)
    /\ Validate(call.validator, ValueOf(call.T, ev))

C4_ValidatedValueOnly ==
    call.op = "ask_with_validation" =>
      /\ \A i \in 1..(Len(reads) - 1) : ~Valid(reads[i])
      /\ pc \in {"loop", "done"}
      /\ pc = "done" <=> (reads # <<>> /\ Valid(LastRead))
      /\ pc = "done" =>
           /\ ret = Returned(ValueOf(call.T, LastRead))
           /\ Validate(call.validator, ret.v)
      /\ pc = "loop" => ret = NoRet

\* ask_with_validation returned at its third read, after a line that parses
\* and fails the validator, and while in between a second such line had left
\* it in its loop.
C4_Witness ==
    /\ call.op = "ask_with_validation" /\ pc = "done" /\ Len(reads) = 3
    /\ \A i \in 1..2 : Accepted(call.T, reads[i]) /\ ~Valid(reads[i])

(***************************************************************************)
(* C5. ask_with_validation prints, after the prompt of each rejected       *)
(* attempt, one diagnostic chosen by the kind of failure: for a line that  *)
(* parses and fails the validator, the caller's message when one is given  *)
(* and "Invalid input, please try again" otherwise; for a line that fails  *)
(* to parse, the parse error, which is not the caller's message; and the   *)
(* validator is called on the values of the lines that parse, in order,    *)
(* and on nothing else.                                                    *)
(***************************************************************************)
RECURSIVE ParsedValues(_, _)
\* The codec's values for the reads it accepts, in order.
ParsedValues(T, evs) ==
    IF evs = <<>> THEN <<>>
    ELSE (IF Accepted(T, Head(evs)) THEN <<ValueOf(T, Head(evs))>> ELSE <<>>)
           \o ParsedValues(T, Tail(evs))

\* The message the caller chose for a value the validator rejects.
CallerMessage ==
    IF call.error_message.some THEN call.error_message.v
    ELSE <<"Invalid input, please try again">>

C5_DiagnosticByKindOfFailure ==
    call.op = "ask_with_validation" =>
      /\ Len(out) = 2 * Len(reads) - (IF pc = "done" THEN 1 ELSE 0)
      /\ \A i \in 1..Len(reads) :
           /\ out[2 * i - 1].k = "print"
           /\ out[2 * i - 1] = Prompt(call.prompt)
           /\ (2 * i <= Len(out)) =>
                /\ out[2 * i].k = "eprintln"
                /\ Head(out[2 * i].text) = "U+274C "
                /\ LET msg == Tail(out[2 * i].text)
                   IN  IF reads[i].k = "err"
                       THEN Head(msg) = "Input error: "
                       ELSE IF Accepted(call.T, reads[i])
                       THEN msg = CallerMessage
                       ELSE /\ msg = Parse(call.T, Trim(reads[i].text)).e.message
                            /\ Head(msg) = "Cannot parse '"
                            /\ msg # CallerMessage
      /\ vcalls = ParsedValues(call.T, reads)

\* ask_with_validation, called with a message of the caller's, has printed
\* it for a line that parses and fails the validator, and the parse error
\* for a line that does not parse.
C5_Witness ==
    /\ call.op = "ask_with_validation" /\ call.error_message.some
    /\ Len(reads) >= 2 /\ Len(out) >= 4
    /\ Accepted(call.T, reads[1]) /\ ~Valid(reads[1])
    /\ reads[2].k = "line" /\ ~Accepted(call.T, reads[2])

\* ask_with_validation, called without a message, has printed the default one.
C5_WitnessDefaultMessage ==
    /\ call.op = "ask_with_validation" /\ ~call.error_message.some
    /\ Len(reads) >= 1 /\ Len(out) >= 2
    /\ Accepted(call.T, reads[1]) /\ ~Valid(reads[1])

(***************************************************************************)
(* C6. ask_with_default makes one attempt: one read at most, no            *)
(* diagnostic; it returns the default when the read fails, when the line   *)
(* is empty after trimming, or when the non-empty line fails to parse, and *)
(* the parsed value when the trimmed line is non-empty and parses.         *)
(***************************************************************************)
C6_DefaultOnEmptyOrFailure ==
    call.op = "ask_with_default" =>
      /\ Len(reads) <= 1
      /\ pc = "done" <=> Len(reads) = 1
      /\ Diagnostics = <<>>
      /\ Len(out) = Len(reads)
      /\ pc = "loop" => ret = NoRet
      /\ pc = "done" =>
           /\ out[1].k = "print_default"
           /\ ret.tag = "ret"
           /\ IF \/ LastRead.k = "err"
                 \/ Trim(LastRead.text) = <<>>
                 \/ ~Accepted(call.T, LastRead)
              THEN ret.v = call.default
              ELSE ret.v = ValueOf(call.T, LastRead)

\* ask_with_default returned its default for an empty line that the codec
\* of T would have accepted.
C6_Witness ==
    /\ call.op = "ask_with_default" /\ pc = "done"
    /\ LastRead.k = "line" /\ Trim(LastRead.text) = <<>>
    /\ Accepted(call.T, LastRead)
    /\ ValueOf(call.T, LastRead) # call.default
    /\ ret.v = call.default

(***************************************************************************)
(* C7. choose over n >= 1 options, for any sequence of reads: it has       *)
(* returned exactly when the last read delivered a text that parses as an  *)
(* unsigned integer k with 1 <= k <= n, and the value returned is          *)
(* options[k-1] (here choices[k], indexed from 1), an element of options;  *)
(* every other read (0, n+1 or any number out of range, a text that is no  *)
(* number, a read failure) is followed by one diagnostic and a new display *)
(* of the list and the prompt, and is not returned as an error.            *)
(***************************************************************************)
\* The read delivered a text that parses as an index of the list.
Selects(ev) ==
    /\ Accepted("usize", ev)
    /\ ValueOf("usize", ev) \in 1..Len(call.choices)

\* What choose writes in one pass before its read, and with a diagnostic
\* after it.
ChoosePassLen == Len(call.choices) + 2

C7_ChooseReturnsSelectedOption ==
    (call.op = "choose" /\ call.choices # <<>> /\ pc # "entry") =>
      /\ \A i \in 1..(Len(reads) - 1) : ~Selects(reads[i])
      /\ pc \in {"loop", "done"}
      /\ pc = "done" <=> (reads # <<>> /\ Selects(LastRead))
      /\ pc = "done" =>
           /\ ret = Returned(call.choices[ValueOf("usize", LastRead)])
           /\ \E j \in 1..Len(call.choices) : ret.v = call.choices[j]
      /\ pc = "loop" => ret = NoRet
      /\ Len(out) = (ChoosePassLen + 1) * Len(reads)
                      - (IF pc = "done" THEN 1 ELSE 0)
      /\ \A i \in 1..Len(reads) :
           LET base == (ChoosePassLen + 1) * (i - 1)
           IN  /\ \A j \in 1..(ChoosePassLen - 1) : out[base + j].k = "println"
               /\ \A j \in 1..Len(call.choices) :
                    out[base + 1 + j].text = <<"  ", j, ". ", call.choices[j]>>
               /\ out[base + ChoosePassLen].k = "print"
               /\ (i < Len(reads) \/ pc = "loop") =>
                    out[base + ChoosePassLen + 1].k = "eprintln"

\* choose over 3 options returned the second one at "2", after "0" and "4"
\* had each been rejected.
C7_Witness ==
    /\ call.op = "choose" /\ Len(call.choices) = 3 /\ pc = "done"
    /\ Len(reads) = 3
    /\ reads[1] = NL(<<"0">>) /\ reads[2] = NL(<<"4">>)
    /\ reads[3] = NL(<<"2">>)
    /\ ret = Returned("green")

(***************************************************************************)
(* C8. choose called with an empty list panics with "Cannot choose from    *)
(* empty list" at once: nothing was written, nothing was read, and no      *)
(* value is returned.                                                      *)
(***************************************************************************)
C8_ChooseEmptyListPanics ==
    (call.op = "choose" /\ call.choices = <<>>) =>
      /\ pc \in {"entry", "panic"}
      /\ out = <<>> /\ reads = <<>>
      /\ ret.tag # "ret"
      /\ pc = "panic" <=> ret = Panicked("Cannot choose from empty list")

\* choose was called with an empty list and has panicked.
C8_Witness ==
    call.op = "choose" /\ call.choices = <<>> /\ pc = "panic"

(***************************************************************************)
(* C9. multi_select called with an empty list returns the empty selection  *)
(* at once: nothing was written (no list, no prompt, no diagnostic) and    *)
(* nothing was read.                                                       *)
(***************************************************************************)
C9_MultiSelectEmptyListReturnsEmpty ==
    (call.op = "multi_select" /\ call.choices = <<>>) =>
      /\ pc \in {"entry", "done"}
      /\ out = <<>> /\ reads = <<>>
      /\ pc = "done" <=> ret = Returned(<<>>)
      /\ pc = "entry" => ret = NoRet

\* multi_select was called with an empty list and has returned.
C9_Witness ==
    call.op = "multi_select" /\ call.choices = <<>> /\ pc = "done"

(***************************************************************************)
(* C10. multi_select over a non-empty list: a read whose text, trimmed, is *)
(* "none" in any letter case or is empty is the last read of the call,     *)
(* which returned the empty selection; a read whose text, trimmed, is      *)
(* "all" in any letter case is the last read of the call, which returned   *)
(* the options, each once, in listed order.                                *)
(***************************************************************************)
\* The text of the read, trimmed, with its letters in lower case.
Answer(ev) == ToLower(Trim(ev.text))

C10_NoneEmptyAll ==
    (call.op = "multi_select" /\ call.choices # <<>>) =>
      \A i \in 1..Len(reads) :
        /\ (reads[i].k # "err" /\ Answer(reads[i]) \in {<<"n", "o", "n", "e">>, <<>>})
             => /\ i = Len(reads) /\ pc = "done"
                /\ ret = Returned(<<>>)
        /\ (reads[i].k # "err" /\ Answer(reads[i]) = <<"a", "l", "l">>)
             => /\ i = Len(reads) /\ pc = "done"
                /\ ret.tag = "ret"
                /\ Len(ret.v) = Len(call.choices)
                /\ \A j \in 1..Len(call.choices) : ret.v[j] = call.choices[j]

\* multi_select over 3 options returned all of them at " AlL", read after a
\* rejected line.
C10_Witness ==
    /\ call.op = "multi_select" /\ Len(call.choices) = 3 /\ pc = "done"
    /\ Len(reads) = 2
    /\ reads[1] = NL(<<"1", ",">>)
    /\ reads[2] = NL(<<" ", "A", "l", "L">>)
    /\ ret = Returned(<<"red", "green", "blue">>)

\* multi_select returned the empty selection at "NoNE".
C10_WitnessNone ==
    /\ call.op = "multi_select" /\ call.choices # <<>> /\ pc = "done"
    /\ LastRead = NL(<<"N", "o", "N", "E">>)
    /\ ret = Returned(<<>>)

(***************************************************************************)
(* Vocabulary of multi_select's properties.                                *)
(***************************************************************************)
\* The comma-separated tokens of the read's answer, each trimmed.
Tokens(ev) ==
    LET pieces == SplitOn(Answer(ev), ",")
    IN  [i \in 1..Len(pieces) |-> Trim(pieces[i])]

\* The token is an integer in [1, n], n the number of options.
IsIndex(tok) ==
    StdParseUsize(tok).ok /\ StdParseUsize(tok).v \in 1..Len(call.choices)

\* The read delivered a text that is none of "none", "all" and empty.
IsTokenLine(ev) ==
    /\ ev.k # "err"
    /\ Answer(ev) \notin {<<"n", "o", "n", "e">>, <<"a", "l", "l">>, <<>>}

\* A line of tokens that are all integers in [1, n].
IsIndexLine(ev) ==
    IsTokenLine(ev) /\ \A j \in 1..Len(Tokens(ev)) : IsIndex(Tokens(ev)[j])

\* A line of tokens one of which is no integer in [1, n].
IsRejectedLine(ev) ==
    IsTokenLine(ev) /\ \E j \in 1..Len(Tokens(ev)) : ~IsIndex(Tokens(ev)[j])

(***************************************************************************)
(* C11. multi_select over n options: a read whose tokens i1,...,im are all *)
(* integers in [1, n] is the last read of the call, which returned the     *)
(* sequence options[i1-1], ..., options[im-1]: as many elements as tokens, *)
(* in the order typed, an index typed twice appearing twice.               *)
(***************************************************************************)
C11_SelectionInTypedOrder ==
    (call.op = "multi_select" /\ call.choices # <<>>) =>
      \A i \in 1..Len(reads) :
        IsIndexLine(reads[i]) =>
          /\ i = Len(reads) /\ pc = "done"
          /\ ret.tag = "ret"
          /\ Len(ret.v) = Len(Tokens(reads[i]))
          /\ \A j \in 1..Len(ret.v) :
               ret.v[j] = call.choices[StdParseUsize(Tokens(reads[i])[j]).v]

\* multi_select over 3 options returned the third then the first at "3,1".
C11_Witness ==
    /\ call.op = "multi_select" /\ Len(call.choices) = 3 /\ pc = "done"
    /\ LastRead = NL(<<"3", ",", "1">>)
    /\ ret = Returned(<<"blue", "red">>)

\* multi_select returned the first option twice at "1, 1".
C11_WitnessRepeat ==
    /\ call.op = "multi_select" /\ call.choices # <<>> /\ pc = "done"
    /\ LastRead = NL(<<"1", ",", " ", "1">>)
    /\ ret = Returned(<<"red", "red">>)

(***************************************************************************)
(* C12. multi_select: a line with a token that is not numeric (an empty    *)
(* token included) or out of [1, n] is rejected as a whole: the call does  *)
(* not return at it, one diagnostic follows its prompt, and the numbered   *)
(* list, the hint and the prompt are written again before the next read;   *)
(* the selection returned is the one the last line alone denotes.          *)
(***************************************************************************)
\* What the accepted read alone denotes.
SelectionOf(ev) ==
    IF Answer(ev) \in {<<"n", "o", "n", "e">>, <<>>} THEN <<>>
    ELSE IF Answer(ev) = <<"a", "l", "l">> THEN call.choices
    ELSE [j \in 1..Len(Tokens(ev)) |->
            call.choices[StdParseUsize(Tokens(ev)[j]).v]]

\* The kinds of what multi_select writes at the top of a pass: the prompt
\* line, one line per option, the hint.
ShowKinds == [j \in 1..(Len(call.choices) + 2) |-> "println"]

RECURSIVE PassKinds(_, _)
\* The kinds of what multi_select writes over the reads evs, `fresh` saying
\* whether the first of them is the first read of a pass of its loop.
PassKinds(evs, fresh) ==
    IF evs = <<>> THEN <<>>
    ELSE (IF fresh THEN ShowKinds ELSE <<>>) \o <<"print">>
           \o (IF Head(evs).k = "err"
               THEN <<"eprintln">> \o PassKinds(Tail(evs), FALSE)
               ELSE IF IsRejectedLine(Head(evs))
               THEN <<"eprintln">> \o PassKinds(Tail(evs), TRUE)
               ELSE PassKinds(Tail(evs), TRUE))

C12_RejectedLineRestartsSelection ==
    (call.op = "multi_select" /\ call.choices # <<>> /\ pc # "entry") =>
      /\ \A i \in 1..Len(reads) :
           IsRejectedLine(reads[i]) => (i < Len(reads) \/ pc # "done")
      /\ \A i \in 1..(Len(reads) - 1) :
           reads[i].k = "err" \/ IsRejectedLine(reads[i])
      /\ pc = "done" =>
           /\ reads # <<>> /\ LastRead.k # "err" /\ ~IsRejectedLine(LastRead)
           /\ ret = Returned(SelectionOf(LastRead))
      /\ pc # "done" => ret = NoRet
      /\ [i \in 1..Len(out) |-> out[i].k]
           = PassKinds(reads, TRUE)
               \o (IF pc = "ask" /\ (reads = <<>> \/ LastRead.k # "err")
                   THEN ShowKinds ELSE <<>>)
      /\ \A i \in 1..Len(out) :
           out[i].k = "print" => out[i] = Prompt("Selection")

\* multi_select over 3 options: "2,0" was rejected after its valid token 2,
\* "1,,2" was rejected, and "3,1" returned the third and first options, the
\* second not among them.
C12_Witness ==
    /\ call.op = "multi_select" /\ Len(call.choices) = 3 /\ pc = "done"
    /\ Len(reads) = 3
    /\ reads[1] = NL(<<"2", ",", "0">>)
    /\ reads[2] = NL(<<"1", ",", ",", "2">>)
    /\ reads[3] = NL(<<"3", ",", "1">>)
    /\ ret = Returned(<<"blue", "red">>)

(***************************************************************************)
(* The codecs called on their own (CodecSpec).                             *)
(***************************************************************************)
\* A finished call of the codec of a type among Ts.
Parsed(Ts) == call.op = "parse" /\ call.T \in Ts /\ pc = "done"

TrueWords ==
    {<<"t", "r", "u", "e">>, <<"t">>, <<"y", "e", "s">>, <<"y">>, <<"1">>,
     <<"o", "n">>}
FalseWords ==
    {<<"f", "a", "l", "s", "e">>, <<"f">>, <<"n", "o">>, <<"n">>, <<"0">>,
     <<"o", "f", "f">>}

\* What C17 says of a text whose letters, case ignored, are `t`, `input`
\* being the text the codec was called on.
BoolOutcome(t, input) ==
    /\ (ret.v.ok /\ ret.v.v = TRUE) <=> t \in TrueWords
    /\ (ret.v.ok /\ ret.v.v = FALSE) <=> t \in FalseWords
    /\ ~ret.v.ok =>
         /\ ret.v.e.expected = "boolean (yes/no, true/false, y/n, 1/0)"
         /\ ret.v.e.input = input

\* C17 as stated: the boolean codec yields true exactly when the text it is
\* given, ignoring letter case, is one of true, t, yes, y, 1, on; false
\* exactly when it is one of false, f, no, n, 0, off; and fails for every
\* other text with the description "boolean (yes/no, true/false, y/n, 1/0)".
\* Violated: " yes" is none of the words and yields true.
C17_BoolWordsAsGiven ==
    Parsed({"bool"}) => BoolOutcome(ToLower(call.input), call.input)

\* C17 amended: the same of the text with its surrounding whitespace trimmed
\* off; the failure carries the text as it was given.
C17_BoolWordsAfterTrim ==
    Parsed({"bool"}) => BoolOutcome(ToLower(Trim(call.input)), call.input)

\* The boolean codec yielded true for "\tYeS ".
C17_Witness ==
    /\ Parsed({"bool"})
    /\ call.input = <<"\t", "Y", "e", "S", " ">>
    /\ ret = Returned(Ok(TRUE))

\* The boolean codec failed on " yess".
C17_WitnessFailure ==
    /\ Parsed({"bool"})
    /\ call.input = <<" ", "y", "e", "s", "s">>
    /\ ~ret.v.ok

NoneWords ==
    {<<"n", "o", "n", "e">>, <<"n", "u", "l", "l">>, <<"n", "i", "l">>,
     <<"-">>, <<"s", "k", "i", "p">>}

\* What C18 says of a call of the Option<T> codec, `t` being the text that is
\* compared with the words for no value and handed to T's codec.
OptionOutcome(t) ==
    LET inner == Parse(TypeArg(call.T), t)
    IN  IF Trim(call.input) = <<>> \/ ToLower(t) \in NoneWords
        THEN ret.v.ok /\ ~ret.v.v.some
        ELSE IF inner.ok
        THEN ret.v.ok /\ ret.v.v.some /\ ret.v.v.v = inner.v
        ELSE ~ret.v.ok /\ ret.v.e = inner.e

\* C18 as stated: the Option<T> codec yields the absent value when the text
\* is empty after trimming or equal, ignoring case, to none, null, nil, - or
\* skip; for any other text it yields present(v) when T's codec yields v for
\* that text, and fails with exactly the error T's codec produced for it.
\* Violated: " none" yields absent, Option<String> yields present("hi") for
\* " hi", and the error for " x" names "x".
C18_OptionOfTextAsGiven == Parsed(OptionTypes) => OptionOutcome(call.input)

\* C18 amended: the same of the text with its surrounding whitespace trimmed
\* off, which is the text compared with the words and handed to T's codec.
C18_OptionOfTrimmedText ==
    Parsed(OptionTypes) => OptionOutcome(Trim(call.input))

\* Option<String> yielded the absent value for "NoNe", which String's codec
\* accepts.
C18_Witness ==
    /\ Parsed({"Option<String>"})
    /\ call.input = <<"N", "o", "N", "e">>
    /\ Parse("String", call.input).ok
    /\ ret = Returned(Ok(None))

\* Option<usize> yielded present(7) for "07 ".
C18_WitnessPresent ==
    /\ Parsed({"Option<usize>"})
    /\ call.input = <<"0", "7", " ">>
    /\ ret = Returned(Ok(Some(7)))

\* Option<bool> failed on "hi" with the error of the boolean codec.
C18_WitnessFailure ==
    /\ Parsed({"Option<bool>"})
    /\ call.input = <<"h", "i">>
    /\ ret = Returned(Err(parse_error(<<"h", "i">>,
                            "boolean (yes/no, true/false, y/n, 1/0)")))

\* The separator C19 names for the text: "ws" stands for whitespace.
SeparatorByPriority(t) ==
    IF \E i \in 1..Len(t) : t[i] = "," THEN ","
    ELSE IF \E i \in 1..Len(t) : t[i] = ";" THEN ";"
    ELSE IF \E i \in 1..Len(t) : t[i] = "|" THEN "|"
    ELSE "ws"

\* The positions of the text where a piece ends or the next begins: those of
\* the separating characters, and the two ends of the text.
Cuts(t, sep) ==
    {0, Len(t) + 1}
      \cup {i \in 1..Len(t) :
              IF sep = "ws" THEN t[i] \in WhiteSpace ELSE t[i] = sep}

\* The k-th cut from the left.
Cut(t, sep, k) ==
    CHOOSE c \in Cuts(t, sep) :
      Cardinality({d \in Cuts(t, sep) : d < c}) = k - 1

RECURSIVE Kept(_)
\* The non-empty texts of a sequence of texts, in order.
Kept(ps) ==
    IF ps = <<>> THEN <<>>
    ELSE (IF Head(ps) = <<>> THEN <<>> ELSE <<Head(ps)>>) \o Kept(Tail(ps))

\* The pieces C19 describes: the stretches of the trimmed text between
\* neighbouring cuts, each trimmed, the empty ones dropped.
Pieces(input) ==
    LET t == Trim(input)
        sep == SeparatorByPriority(t)
        n == Cardinality(Cuts(t, sep)) - 1
    IN  Kept([k \in 1..n |->
               Trim(SubSeq(t, Cut(t, sep, k) + 1, Cut(t, sep, k + 1) - 1))])

\* C19: the list codec splits the text on one separator: comma if the text
\* holds a comma, else semicolon, else pipe, else whitespace; characters of
\* the separators of lower priority stay inside the pieces; the pieces are
\* trimmed and the empty ones dropped, whitespace separating in runs. Seen at
\* Vec<String>, whose elements are the pieces themselves; a list of another
\* element type that parses has one element per piece.
C19_OneSeparatorByPriority ==
    /\ Parsed({"Vec<String>"}) =>
         ret.v.ok /\ ret.v.v = Pieces(call.input)
    /\ Parsed(VecTypes) /\ ret.v.ok =>
         Len(ret.v.v) = Len(Pieces(call.input))

\* "1,2;3" was split on its comma into "1" and "2;3".
C19_Witness ==
    /\ Parsed({"Vec<String>"})
    /\ call.input = <<"1", ",", "2", ";", "3">>
    /\ ret = Returned(Ok(<< <<"1">>, <<"2", ";", "3">> >>))

\* "1|2 3" was split on its pipe into "1" and "2 3".
C19_WitnessPipe ==
    /\ Parsed({"Vec<String>"})
    /\ call.input = <<"1", "|", "2", " ", "3">>
    /\ ret = Returned(Ok(<< <<"1">>, <<"2", " ", "3">> >>))

\* "1  \t2" was split on its run of whitespace into "1" and "2".
C19_WitnessWhitespace ==
    /\ Parsed({"Vec<String>"})
    /\ call.input = <<"1", " ", " ", "\t", "2">>
    /\ ret = Returned(Ok(<< <<"1">>, <<"2">> >>))

\* ";1;;y;" was split on its semicolons into "1" and "y", empty pieces dropped.
C19_WitnessEmptyPieces ==
    /\ Parsed({"Vec<String>"})
    /\ call.input = <<";", "1", ";", ";", "y", ";">>
    /\ ret = Returned(Ok(<< <<"1">>, <<"y">> >>))

\* The description of an element type, as C20 quotes it.
Description(T) ==
    CASE T = "String" -> "text"
      [] T = "bool" -> "boolean"
      [] T = "usize" -> "positive integer"

\* The pieces of the text that the codec of T rejects.
RejectedPieces(T, input) ==
    {k \in 1..Len(Pieces(input)) : ~Parse(T, Pieces(input)[k]).ok}

\* C20: the list codec is all-or-nothing. If the codec of the element type
\* rejects a piece, the list fails, with the description "list of " followed
\* by the description of the element type and with the whole text as the
\* original input; if every piece parses, the list holds the value of each
\* piece, in the order of the pieces; a text that is empty after trimming
\* yields the empty list.
C20_ListAllOrNothing ==
    Parsed(VecTypes) =>
      LET T == TypeArg(call.T)
          pieces == Pieces(call.input)
      IN  /\ Trim(call.input) = <<>> => ret.v.ok /\ ret.v.v = <<>>
          /\ RejectedPieces(T, call.input) # {} =>
               /\ ~ret.v.ok
               /\ ret.v.e.expected = <<"list of ", Description(T)>>
               /\ ret.v.e.input = call.input
          /\ RejectedPieces(T, call.input) = {} =>
               /\ ret.v.ok
               /\ Len(ret.v.v) = Len(pieces)
               /\ \A k \in 1..Len(pieces) :
                    ret.v.v[k] = Parse(T, pieces[k]).v

\* Vec<usize> failed on "1,2,x", whose first two pieces parse, naming the
\* whole text.
C20_Witness ==
    /\ Parsed({"Vec<usize>"})
    /\ call.input = <<"1", ",", "2", ",", "x">>
    /\ ret = Returned(Err(parse_error(call.input,
                            <<"list of ", "positive integer">>)))

\* Vec<bool> yielded true, false for "y no".
C20_WitnessParsed ==
    /\ Parsed({"Vec<bool>"})
    /\ call.input = <<"y", " ", "n", "o">>
    /\ ret = Returned(Ok(<<TRUE, FALSE>>))

\* Vec<usize> yielded the empty list for " \t".
C20_WitnessEmpty ==
    /\ Parsed({"Vec<usize>"})
    /\ call.input = <<" ", "\t">>
    /\ ret = Returned(Ok(<<>>))

(***************************************************************************)
(* Form::collect (FormSpec).                                               *)
(***************************************************************************)
\* collect has been called.
Collecting == call.op = "collect" /\ pc # "build"

\* collect has returned its mapping.
Collected == call.op = "collect" /\ pc \in {"done", "iterated"}

\* What was written, and read, between the end of field i - 1 and the end of
\* field i; for the field collect is at, up to now.
Written(i) ==
    SubSeq(out, (IF i = 1 THEN 0 ELSE log[i - 1].out) + 1,
           IF i <= Len(log) THEN log[i].out ELSE Len(out))
ReadBy(i) ==
    SubSeq(reads, (IF i = 1 THEN 0 ELSE log[i - 1].reads) + 1,
           IF i <= Len(log) THEN log[i].reads ELSE Len(reads))

\* The first thing the prompt function of a field writes: the heading of its
\* list, or its prompt.
Opening(f) ==
    IF f.field_type.kind \in {"Choice", "MultiChoice"}
    THEN Println(<<f.prompt, ":">>)
    ELSE Prompt(f.prompt)

\* Every heading and every prompt among the entries is that of the field.
ShowsOnly(entries, f) ==
    \A j \in 1..Len(entries) :
      /\ entries[j].k = "println" /\ Len(entries[j].text) = 2 =>
           entries[j].text[1] = f.prompt
      /\ entries[j].k = "print" =>
           \/ entries[j] = Prompt(f.prompt)
           \/ /\ f.field_type.kind = "Choice"
              /\ entries[j] = Prompt(ChoosePrompt(f.field_type.choices))
           \/ /\ f.field_type.kind = "MultiChoice"
              /\ entries[j] = Prompt("Selection")

\* Field i was prompted, in its turn.
PromptedInTurn(i) ==
    /\ Written(i) # <<>>
    /\ Written(i)[1] = Opening(call.fields[i])
    /\ ShowsOnly(Written(i), call.fields[i])

\* A MultiChoice field declared with no option.
NoOptionMultiChoice(f) ==
    f.field_type.kind = "MultiChoice" /\ f.field_type.choices = <<>>

\* The string collect is to store for a field of the kind when the user
\* typed the text, for the texts of the model that the field accepts.
Serialized(kind, typed) ==
    CASE kind = "Text" /\ typed = <<"h", "i">> -> <<"h", "i">>
      [] kind = "Text" /\ typed = <<>> -> <<>>
      [] kind = "Number" /\ typed = <<"1", ".", "5", "0">> -> <<"1", ".", "5">>
      [] kind = "Boolean" /\ typed = <<"Y">> -> <<"t", "r", "u", "e">>
      [] kind = "Choice" /\ typed = <<"2">> -> <<"g", "r", "e", "e", "n">>
      [] kind = "MultiChoice" /\ typed = <<"2", ",", "1">> ->
           <<"g", "r", "e", "e", "n", ",", " ", "r", "e", "d">>
      [] kind = "Optional" /\ typed = <<"h", "i">> -> <<"h", "i">>
      [] kind = "Optional" /\ typed = <<" ", "\t">> -> <<>>
      [] kind = "Optional" /\ typed = <<"n", "o", "n", "e">> ->
           <<"n", "o", "n", "e">>
      [] kind = "Optional" /\ typed = <<" ", "-">> -> <<"-">>
      [] kind = "ValidatedText" /\ typed = <<"h", "e", "l", "l", "o">> ->
           <<"h", "e", "l", "l", "o">>
      [] OTHER -> <<"not accepted">>

\* The line a finished field read last, without its line end.
TypedLast(i) ==
    LET ev == reads[log[i].reads]
    IN  SubSeq(ev.text, 1, Len(ev.text) - 1)

\* The value field i gave is the serialized value of what the user typed
\* last for it; a MultiChoice field without options read nothing and gave "".
ValueAsTyped(i) ==
    IF NoOptionMultiChoice(call.fields[i])
    THEN ReadBy(i) = <<>> /\ log[i].value = <<>>
    ELSE /\ ReadBy(i) # <<>>
         /\ reads[log[i].reads].k = "line"
         /\ log[i].value
              = Serialized(call.fields[i].field_type.kind, TypedLast(i))

\* No field declared after field i has its key.
LastOfItsKey(i) ==
    \A j \in (i + 1)..Len(call.fields) :
      call.fields[j].key # call.fields[i].key

\* The mapping collect returned holds exactly the declared keys, each with
\* the value collected for it.
MappingAsCollected ==
    /\ ret.tag = "ret"
    /\ Len(log) = Len(call.fields)
    /\ DOMAIN ret.v = {call.fields[i].key : i \in 1..Len(call.fields)}
    /\ \A i \in 1..Len(call.fields) :
         LastOfItsKey(i) => ret.v[call.fields[i].key] = log[i].value

\* What C13 says of the order and of the mapping: whatever is written while
\* collect is at a field is that field's, each finished field gave the
\* serialized value of what was typed for it, and the mapping returned holds
\* the declared keys with those values.
OrderAndMapping ==
    /\ field = Len(log) + 1
    /\ \A i \in 1..Len(log) : ValueAsTyped(i)
    /\ Written(Len(log) + 1) # <<>> =>
         /\ Len(log) < Len(call.fields)
         /\ Written(Len(log) + 1)[1] = Opening(call.fields[Len(log) + 1])
         /\ ShowsOnly(Written(Len(log) + 1), call.fields[Len(log) + 1])
    /\ Collected => MappingAsCollected

\* C13 as stated: collect runs the fields in declaration order, field i + 1
\* not prompted before field i gave its value; every declared field is
\* prompted; the mapping returned has the declared keys as its key set, each
\* with the serialized value collected for it.
\* Violated: a MultiChoice field declared with no option is not prompted.
C13_EveryFieldPromptedInOrder ==
    Collecting =>
      /\ OrderAndMapping
      /\ \A i \in 1..Len(log) : PromptedInTurn(i)

\* C13 amended: the same, but a MultiChoice field declared with no option
\* gives "" without a prompt, and collect panics, returning no mapping, when
\* it comes to a Choice field declared with no option.
C13_FieldsInOrderUnlessNoOption ==
    Collecting =>
      /\ OrderAndMapping
      /\ \A i \in 1..Len(log) :
           IF NoOptionMultiChoice(call.fields[i])
           THEN Written(i) = <<>>
           ELSE PromptedInTurn(i)
      /\ pc = "panic" =>
           /\ field <= Len(call.fields)
           /\ call.fields[field].field_type = Choice(<<>>)
           /\ Written(field) = <<>>
           /\ ret = Panicked("Cannot choose from empty list")
      /\ \A i \in 1..Len(log) : call.fields[i].field_type # Choice(<<>>)

\* A Number field under "a" and a MultiChoice field under "b" were collected:
\* "x" was refused, "1.50" gave "1.5", then "2,1" gave "green, red".
C13_Witness ==
    /\ Collected /\ Len(call.fields) = 2
    /\ call.fields[1] = FormField("a", "P1", Number)
    /\ call.fields[2] = FormField("b", "P2", MultiChoice(<<"red", "green">>))
    /\ reads = <<NL(<<"x">>), NL(<<"1", ".", "5", "0">>),
                 NL(<<"2", ",", "1">>)>>
    /\ ret.v["a"] = <<"1", ".", "5">>
    /\ ret.v["b"] = <<"g", "r", "e", "e", "n", ",", " ", "r", "e", "d">>

\* A MultiChoice field with no option under "a" gave "" without a prompt,
\* and the Text field after it was collected.
C13_WitnessNoOption ==
    /\ Collected /\ Len(call.fields) = 2
    /\ call.fields[1] = FormField("a", "P1", MultiChoice(<<>>))
    /\ call.fields[2] = FormField("b", "P2", Text)
    /\ reads = <<NL(<<"h", "i">>)>>
    /\ out = <<Prompt("P2")>>
    /\ ret.v["a"] = <<>> /\ ret.v["b"] = <<"h", "i">>

\* collect panicked at a Choice field with no option, after a Boolean field.
C13_WitnessPanic ==
    /\ call.op = "collect" /\ pc = "panic" /\ Len(call.fields) = 2
    /\ call.fields[1].field_type = Boolean
    /\ call.fields[2].field_type = Choice(<<>>)
    /\ Len(log) = 1

\* The fields declared with the key.
FieldsWithKey(key) ==
    {i \in 1..Len(call.fields) : call.fields[i].key = key}

\* The last of the fields declared with the key.
LastWithKey(key) ==
    CHOOSE i \in FieldsWithKey(key) : \A j \in FieldsWithKey(key) : j <= i

\* C14: when several fields are declared with one key, the value the result
\* of collect holds for the key is the one collected by the last field
\* declared with it, and the result holds one entry for the key: an
\* iteration over the result yields the key once.
C14_LastWriteWins ==
    Collected =>
      \A key \in {call.fields[i].key : i \in 1..Len(call.fields)} :
        /\ key \in DOMAIN ret.v
        /\ ret.v[key] = log[LastWithKey(key)].value
        /\ pc = "iterated" =>
             Cardinality({j \in 1..Len(iter) : iter[j] = key}) = 1

\* A Text field and a Number field were declared with the key "a": "hi" was
\* collected first and "1.5" last, and the result holds "1.5" for "a" and
\* nothing else.
C14_Witness ==
    /\ call.op = "collect" /\ pc = "iterated" /\ Len(call.fields) = 2
    /\ call.fields[1] = FormField("a", "P1", Text)
    /\ call.fields[2] = FormField("a", "P2", Number)
    /\ log[1].value = <<"h", "i">>
    /\ log[2].value = <<"1", ".", "5">>
    /\ ret.v["a"] = <<"1", ".", "5">>
    /\ DOMAIN ret.v = {"a"}
    /\ iter = <<"a">>

RECURSIVE KeysAsDeclared(_, _)
\* The keys of the fields in the order in which the fields were declared,
\* each at the place of the first field declared with it.
KeysAsDeclared(fields, seen) ==
    IF fields = <<>> THEN <<>>
    ELSE IF Head(fields).key \in seen
    THEN KeysAsDeclared(Tail(fields), seen)
    ELSE <<Head(fields).key>>
           \o KeysAsDeclared(Tail(fields), seen \cup {Head(fields).key})

\* C15: the result of collect is an ordered mapping: an iteration over its
\* entries yields the keys in the order in which the fields were declared.
\* Violated: the result is a HashMap, and an iteration over the result of the
\* fields "a", "b" can yield "b" before "a".
C15_IterationInDeclarationOrder ==
    (call.op = "collect" /\ pc = "iterated") =>
      iter = KeysAsDeclared(call.fields, {})

\* What does hold of the iteration: it yields every declared key, once.
C15_IterationYieldsEveryKeyOnce ==
    (call.op = "collect" /\ pc = "iterated") =>
      /\ {iter[j] : j \in 1..Len(iter)}
           = {call.fields[i].key : i \in 1..Len(call.fields)}
      /\ \A j, k \in 1..Len(iter) : j # k => iter[j] # iter[k]

\* The fields "a" then "b" were collected and the iteration over the result
\* yielded "b" first.
C15_Witness ==
    /\ call.op = "collect" /\ pc = "iterated" /\ Len(call.fields) = 2
    /\ call.fields[1].key = "a" /\ call.fields[2].key = "b"
    /\ iter = <<"b", "a">>

\* C16: an Optional field is collected with ask::<String>, not with the
\* Option<T> codec: the first line read ends the field, whatever it holds; a
\* line that is empty after trimming is stored as the empty string, its key
\* present in the result; and every other line, "none" and "-" among them,
\* is stored as its trimmed text. The prompt is that of the declaration
\* followed by " (optional)".
C16_OptionalStoredAsText ==
    Collecting =>
      \A i \in 1..Len(log) :
        call.fields[i].field_type.kind = "Optional" =>
          LET rs == ReadBy(i)
              typed == Trim(ReadText(rs[Len(rs)]))
          IN  /\ rs # <<>>
              /\ rs[Len(rs)].k = "line"
              /\ \A j \in 1..(Len(rs) - 1) : rs[j].k = "err"
              /\ log[i].value = typed
              /\ Collected /\ LastOfItsKey(i) =>
                   /\ call.fields[i].key \in DOMAIN ret.v
                   /\ ret.v[call.fields[i].key] = typed
              /\ Written(i)[1]
                   = Prompt(OptionalPrompt(PromptNames[i]))

\* Two Optional fields were collected: "none" is stored under "a" as the text
\* none, and the blank line " \t" under "b" as the empty string.
C16_Witness ==
    /\ Collected /\ Len(call.fields) = 2
    /\ call.fields[1] = FormField("a", "P1 (optional)", Optional)
    /\ call.fields[2] = FormField("b", "P2 (optional)", Optional)
    /\ reads = <<NL(<<"n", "o", "n", "e">>), NL(<<" ", "\t">>)>>
    /\ ret.v = [k \in {"a", "b"} |->
                  IF k = "a" THEN <<"n", "o", "n", "e">> ELSE <<>>]

\* An Optional field read " -" after a failed read and stored "-".
C16_WitnessDash ==
    /\ Collected /\ Len(call.fields) = 1
    /\ call.fields[1].field_type = Optional
    /\ reads = <<ErrEv, NL(<<" ", "-">>)>>
    /\ ret.v[call.fields[1].key] = <<"-">>

\* The parts a tuple text splits into: on its commas if it holds one, and
\* else on its runs of whitespace, each part without the whitespace around it.
PartsOf(input) ==
    LET sep == IF \E i \in 1..Len(input) : input[i] = "," THEN "," ELSE "ws"
        n == Cardinality(Cuts(input, sep)) - 1
    IN  IF sep = ","
        THEN [k \in 1..n |->
               Trim(SubSeq(input, Cut(input, sep, k) + 1,
                           Cut(input, sep, k + 1) - 1))]
        ELSE Kept([k \in 1..n |->
                    SubSeq(input, Cut(input, sep, k) + 1,
                           Cut(input, sep, k + 1) - 1)])

\* The text splits into exactly n parts, none of them empty.
SplitsIntoNonEmpty(input, n) ==
    /\ Len(PartsOf(input)) = n
    /\ \A k \in 1..n : PartsOf(input)[k] # <<>>

\* The description of a failed count of parts.
CountDescription(T) ==
    IF T \in PairTypes THEN "pair of values (separate with comma or space)"
    ELSE "triple of values (separate with comma or space)"

\* C21: the tuple codecs require exactly 2 (for a triple, 3) non-empty parts:
\* a text that does not split into exactly that many non-empty parts fails,
\* with the description "pair of values (separate with comma or space)" (for
\* a triple, "triple of values (separate with comma or space)"), whatever the
\* element types are.
\* Violated: the empty parts around a comma are kept and counted, so "a,"
\* parses as the pair ("a", "") of texts, and "1," fails as a pair of numbers
\* with the description of its elements.
C21_TupleNeedsNonEmptyParts ==
    Parsed(PairTypes \cup TripleTypes) =>
      (~SplitsIntoNonEmpty(call.input, Len(TupleArgs(call.T))) =>
         /\ ~ret.v.ok
         /\ ret.v.e.expected = CountDescription(call.T))

\* What does hold: a text fails with that description exactly when the
\* number of its parts, the empty ones counted, is not that of the tuple.
C21_TupleNeedsPartCount ==
    Parsed(PairTypes \cup TripleTypes) =>
      ((~ret.v.ok /\ ret.v.e.expected = CountDescription(call.T))
         <=> Len(PartsOf(call.input)) # Len(TupleArgs(call.T)))

\* "a," was parsed as the pair of the texts "a" and "".
C21_Witness ==
    /\ Parsed({"(String, String)"})
    /\ call.input = <<"a", ",">>
    /\ ret = Returned(Ok(<< <<"a">>, <<>> >>))

\* "1.5 2.5" was parsed as the pair of 1.5 and 2.5, and so was "1.5,2.5".
C21_WitnessDecimals ==
    /\ Parsed({"(f64, f64)"})
    /\ call.input \in {<<"1", ".", "5", " ", "2", ".", "5">>,
                       <<"1", ".", "5", ",", "2", ".", "5">>}
    /\ ret.v.ok
    /\ F64ToString(ret.v.v[1]) = <<"1", ".", "5">>
    /\ F64ToString(ret.v.v[2]) = <<"2", ".", "5">>

\* A value of a scalar type was written as text and read back.
RoundTripped(Ts) == call.op = "round_trip" /\ call.T \in Ts /\ pc = "done"

\* C22: for every value v of a scalar type (text, boolean, character, the
\* integers of each fixed width), the codec of the type reads the canonical
\* text of v back as v, a whitespace character included.
\* Violated: the character codec trims its text first, so the text of the
\* blank, of the tab and of the line feed is empty to it, and it fails.
C22_ScalarRoundTrip ==
    RoundTripped(ScalarTypes) => ret.v.ok /\ ret.v.v = call.v

\* What does hold: every value is read back as itself but the whitespace
\* characters, which the character codec refuses as "single character".
C22_RoundTripButWhitespaceChar ==
    RoundTripped(ScalarTypes) =>
      IF call.T = "char" /\ call.v \in {" ", "\t", "\n", "\r"}
      THEN ~ret.v.ok /\ ret.v.e.expected = "single character"
      ELSE ret.v.ok /\ ret.v.v = call.v

\* The character codec failed on the text of the blank.
C22_Witness ==
    /\ RoundTripped({"char"})
    /\ call.v = " "
    /\ ~ret.v.ok

\* The i8 codec read the text of -128 back as -128.
C22_WitnessInteger ==
    /\ RoundTripped({"i8"})
    /\ call.v = 0 - 128
    /\ ret = Returned(Ok(0 - 128))

\* The range and the description C25 gives for an integer type.
RangeOf(T) ==
    CASE T = "u8" -> 0..255
      [] T = "i8" -> (0 - 128)..127
      [] T = "u16" -> 0..65535
      [] T = "i16" -> (0 - 32768)..32767
RangeDescription(T) ==
    CASE T = "u8" -> "positive integer (0 to 255)"
      [] T = "i8" -> "integer (-128 to 127)"
      [] T = "u16" -> "positive integer (0 to 65,535)"
      [] T = "i16" -> "integer (-32,768 to 32,767)"

\* C25: the codec of a bounded integer type reads the decimal text of an
\* integer n as n exactly when n lies in the range of the type; the text of
\* a number outside the range is refused, not wrapped or truncated, and every
\* failure carries the description of the range of the type and the text.
C25_BoundedIntegerRange ==
    Parsed(IntTypes) =>
      /\ \A n \in IntCandidates(call.T) :
           call.input = IntToString(n) =>
             IF n \in RangeOf(call.T)
             THEN ret.v.ok /\ ret.v.v = n
             ELSE ~ret.v.ok
      /\ ~ret.v.ok =>
           /\ ret.v.e.expected = RangeDescription(call.T)
           /\ ret.v.e.input = call.input

\* The u8 codec refused "256" with the description of its range.
C25_Witness ==
    /\ Parsed({"u8"})
    /\ call.input = <<"2", "5", "6">>
    /\ ret = Returned(Err(parse_error(<<"2", "5", "6">>,
                                      "positive integer (0 to 255)")))

\* The i16 codec read "-32768" as -32768 and refused "-32769".
C25_WitnessLowest ==
    /\ Parsed({"i16"})
    /\ \/ /\ call.input = <<"-", "3", "2", "7", "6", "8">>
          /\ ret = Returned(Ok(0 - 32768))
       \/ /\ call.input = <<"-", "3", "2", "7", "6", "9">>
          /\ ~ret.v.ok

(***************************************************************************)
(* Claims about the validators called on their own.                        *)
(***************************************************************************)
RECURSIVE Meaning(_, _)
\* What C23 says a validator answers on x: an `and` both of its parts do,
\* an `or` one of its parts does, a validator of the library what it does.
Meaning(validator, x) ==
    CASE validator.f = "and" ->
           Meaning(validator.validator1, x) = TRUE
             /\ Meaning(validator.validator2, x) = TRUE
      [] validator.f = "or" ->
           Meaning(validator.validator1, x) = TRUE
             \/ Meaning(validator.validator2, x) = TRUE
      [] OTHER -> Validate(validator, x)

\* C23: and(v1, v2)(x) = v1(x) AND v2(x) and or(v1, v2)(x) = v1(x) OR v2(x)
\* for all validators and values; building a combined validator calls
\* nothing and changes no state; calling it again on the same value gives
\* the same answer.
C23_AndOrPointwise ==
    [][call.op = "validate" =>
         /\ pc' = "called" =>
              ret' = Returned(Meaning(call'.validator, call'.value))
         /\ call'.validator # call.validator =>
              /\ call'.validator.f \in {"and", "or"}
              /\ call.validator \in {call'.validator.validator1,
                                     call'.validator.validator2}
              /\ call'.value = call.value
              /\ vcalls' = vcalls /\ ret' = ret
              /\ UNCHANGED <<reads, out, closedAfter, formVars>>
         /\ (pc = "called" /\ pc' = "called") => ret' = ret]_vars

\* and(or(min_length(2), not_empty), max_length(2)) was built and refused
\* "abc" on each of two calls.
C23_Witness ==
    /\ call.op = "validate" /\ pc = "called"
    /\ call.validator = and(or(min_length(2), not_empty), max_length(2))
    /\ call.value = <<"a", "b", "c">>
    /\ vcalls = <<call.value, call.value>>
    /\ ret = Returned(FALSE)

\* or(is_positive, in_range(1, 3)) accepted 4.
C23_WitnessOr ==
    /\ call.op = "validate" /\ pc = "called"
    /\ call.validator = or(is_positive, in_range(1, 3))
    /\ call.value = 4
    /\ ret = Returned(TRUE)

\* C24: min_length(n) accepts a string iff it has at least n characters and
\* max_length(n) iff it has at most n characters, strings with characters
\* of more than one byte included.
\* Violated: both compare the length in bytes.
C24_LengthInCharacters ==
    (call.op = "validate" /\ pc = "called") =>
      /\ call.validator.f = "min_length" =>
           ret.v = (Len(call.value) >= call.validator.n)
      /\ call.validator.f = "max_length" =>
           ret.v = (Len(call.value) <= call.validator.n)

\* What does hold: the bound is on the number of bytes of the encoding.
C24_LengthInBytes ==
    (call.op = "validate" /\ pc = "called") =>
      /\ call.validator.f = "min_length" =>
           ret.v = (StrLen(call.value) >= call.validator.n)
      /\ call.validator.f = "max_length" =>
           ret.v = (StrLen(call.value) <= call.validator.n)

\* min_length(2) accepted the text of the one character U+00E9.
C24_Witness ==
    /\ call.op = "validate" /\ pc = "called"
    /\ call.validator = min_length(2)
    /\ call.value = <<"U+00E9">>
    /\ ret = Returned(TRUE)

\* max_length(2) refused the text of the two characters U+00E9 U+00DF.
C24_WitnessMax ==
    /\ call.op = "validate" /\ pc = "called"
    /\ call.validator = max_length(2)
    /\ call.value = <<"U+00E9", "U+00DF">>
    /\ ret = Returned(FALSE)

(***************************************************************************)
(* Claims about a form with a Choice field declared with no option.        *)
(***************************************************************************)
\* collect is to run a Choice field declared with no option.
AtNoOptionChoice ==
    /\ call.op = "collect" /\ pc = "loop"
    /\ field <= Len(call.fields)
    /\ call.fields[field].field_type = Choice(<<>>)

\* Field i, declared before the one collect is at, was prompted in its turn
\* and consumed its input: it read a line last.
PromptedAndRead(i) ==
    /\ PromptedInTurn(i)
    /\ ReadBy(i) # <<>>
    /\ reads[log[i].reads].k = "line"

\* collect has aborted at a Choice field declared with no option: nothing
\* was written or read for it or for a later field, and no mapping is
\* returned.
AbortedAtNoOptionChoice ==
    /\ field <= Len(call.fields)
    /\ call.fields[field].field_type = Choice(<<>>)
    /\ ret = Panicked("Cannot choose from empty list")
    /\ Len(log) = field - 1
    /\ Written(field) = <<>> /\ ReadBy(field) = <<>>

\* A step of a form on which the builder takes every declaration, collect
\* aborts exactly when it comes to a Choice field with no option, and
\* nothing happens after the abort.
AbortsOnlyAtNoOptionChoice ==
    /\ pc = "build" => ret = NoRet /\ ret'.tag # "panic"
    /\ AtNoOptionChoice =>
         /\ pc' = "panic"
         /\ UNCHANGED <<call, reads, out, field, results, log>>
    /\ pc' = "panic" => AtNoOptionChoice /\ AbortedAtNoOptionChoice'
    /\ pc # "panic"

\* C26 as stated: the builder accepts a Choice field declared with no
\* option; collect aborts when it reaches the field, after every field
\* declared before it was prompted and consumed its input; it returns no
\* mapping, and no field declared after it is prompted.
\* Violated: a MultiChoice field with no option declared before it was not
\* prompted and read nothing.
C26_EveryEarlierFieldPrompted ==
    [][call.op = "collect" =>
         /\ AbortsOnlyAtNoOptionChoice
         /\ pc' = "panic" =>
              \A i \in 1..(field - 1) : PromptedAndRead(i)]_vars

\* C26 amended: the same, but a MultiChoice field with no option declared
\* before it gave "" without a prompt and without reading.
C26_EarlierFieldsRunUnlessNoOption ==
    [][call.op = "collect" =>
         /\ AbortsOnlyAtNoOptionChoice
         /\ pc' = "panic" =>
              \A i \in 1..(field - 1) :
                IF NoOptionMultiChoice(call.fields[i])
                THEN Written(i) = <<>> /\ ReadBy(i) = <<>>
                ELSE PromptedAndRead(i)]_vars

\* A Text field under "a" read "hi", then collect aborted at the Choice
\* field with no option: the value collected is not returned.
C26_Witness ==
    /\ call.op = "collect" /\ pc = "panic" /\ Len(call.fields) = 2
    /\ call.fields[1] = FormField("a", "P1", Text)
    /\ call.fields[2] = FormField("b", "P2", Choice(<<>>))
    /\ reads = <<NL(<<"h", "i">>)>>
    /\ out = <<Prompt("P1")>>
    /\ log[1].value = <<"h", "i">>
    /\ ret = Panicked("Cannot choose from empty list")

\* collect aborted at a Choice field with no option declared after a
\* MultiChoice field with no option: nothing was written or read.
C26_WitnessNoPrompt ==
    /\ call.op = "collect" /\ pc = "panic" /\ Len(call.fields) = 2
    /\ call.fields[1].field_type = MultiChoice(<<>>)
    /\ call.fields[2].field_type = Choice(<<>>)
    /\ out = <<>> /\ reads = <<>>

(***************************************************************************)
(* Claims about ask for a text.                                            *)
(***************************************************************************)
\* The text has no whitespace at either end.
Stripped(t) ==
    t # <<>> => t[1] \notin WhiteSpace /\ t[Len(t)] \notin WhiteSpace

\* t is the text with whitespace taken off both of its ends.
StrippedOf(t, full) ==
    /\ Stripped(t)
    /\ \E a \in 0..Len(full) :
         /\ a + Len(t) <= Len(full)
         /\ SubSeq(full, a + 1, a + Len(t)) = t
         /\ \A k \in (1..a) \cup ((a + Len(t) + 1)..Len(full)) :
              full[k] \in WhiteSpace

\* The prompts written so far.
IsPrompt(o) == o.k = "print"
Prompts == SelectSeq(out, IsPrompt)

\* C27: ask for a text never retries on a successful read: it returns at
\* the first read that did not fail, with the line less the whitespace at
\* its ends, so the empty text for a blank or whitespace-only line and never
\* a text that starts or ends with whitespace; the read of a text inside
\* multi_select likewise consumes one line per prompt.
C27_TextReturnsAtFirstRead ==
    /\ (call.op = "ask" /\ call.T = "String") =>
         /\ \A i \in 1..(Len(reads) - 1) : reads[i].k = "err"
         /\ pc = "done" <=> (reads # <<>> /\ LastRead.k # "err")
         /\ pc = "done" =>
              /\ ret.tag = "ret"
              /\ StrippedOf(ret.v, LastRead.text)
              /\ (\A k \in 1..Len(LastRead.text) :
                    LastRead.text[k] \in WhiteSpace) => ret.v = <<>>
         /\ Len(Prompts) = Len(reads)
         /\ \A i \in 1..Len(Prompts) : Prompts[i] = Prompt(call.prompt)
    /\ call.op = "multi_select" =>
         /\ Len(Prompts) = Len(reads)
         /\ \A i \in 1..Len(Prompts) : Prompts[i] = Prompt("Selection")

\* ask for a text returned "hi" for the line " hi\t" after a failed read.
C27_Witness ==
    /\ call.op = "ask" /\ call.T = "String" /\ pc = "done"
    /\ reads = <<ErrEv, NL(<<" ", "h", "i", "\t">>)>>
    /\ ret = Returned(<<"h", "i">>)

\* ask for a text returned "" for a line of two blanks, its first read.
C27_WitnessBlank ==
    /\ call.op = "ask" /\ call.T = "String" /\ pc = "done"
    /\ reads = <<NL(<<" ", " ">>)>>
    /\ ret = Returned(<<>>)

\* multi_select, asked again after a selection none of whose parts named an
\* option, has read two lines at two prompts.
C27_WitnessMultiSelect ==
    /\ call.op = "multi_select"
    /\ Len(reads) = 2 /\ reads[1].k = "line" /\ reads[2].k = "line"
    /\ Len(Prompts) = 2

\* The same of a Text field of a form: while collect is at the field, every
\* read before the last failed, and the field is done at the first read
\* that did not fail.
C27_TextFieldOneLinePerPrompt ==
    Collecting =>
      /\ Len(Prompts) = Len(reads)
      /\ \A i \in 1..Len(log) :
           call.fields[i].field_type = Text =>
             /\ Len(ReadBy(i)) >= 1
             /\ \A k \in 1..(Len(ReadBy(i)) - 1) : ReadBy(i)[k].k = "err"
             /\ ReadBy(i)[Len(ReadBy(i))].k # "err"
             /\ StrippedOf(log[i].value, ReadBy(i)[Len(ReadBy(i))].text)

====
